---- MODULE Spec2Model ----
(***************************************************************************)
(* Spatial branch-and-bound for separable piecewise-linear optimisation.   *)
(* Model of Algorithms/sBB_functions.py (getPLFvalue, getEnvelope,         *)
(* branch_and_bound, solve_node) and Algorithms/sBB_main.py (spatialBB).   *)
(*                                                                         *)
(* Numbers.  The program computes in floating point; the model computes    *)
(* in exact arithmetic.  Breakpoint abscissae, interval ends and           *)
(* right-hand sides are integers and breakpoint ordinates are multiples    *)
(* of YUnit, so that every quotient the program forms at a point the       *)
(* model can reach is an integer (ExactDiv, ExactArithmetic).              *)
(* Slopes are compared by cross-multiplication.                            *)
(* Python lists are sequences; Python index j is sequence index j + 1.     *)
(***************************************************************************)
EXTENDS Integers, Sequences, FiniteSets, TLC

\* ------------------------------------------------------------------ bounds

\* Variables range over [0, MaxX]; the PLFs of the envelope harness lie
\* within [-1, MaxX - 1].
MaxX == 3

\* Breakpoint ordinates are YUnit * v with v in 0 .. MaxY, in -MaxY .. 0 for
\* the concave problems, in -MaxY .. MaxY in the envelope harness.
MaxY == 1

\* ------------------------------------------------------------- arithmetic

Abs(a) == IF a < 0 THEN -a ELSE a

Min2(a, b) == IF a <= b THEN a ELSE b

RECURSIVE Gcd(_, _)
Gcd(a, b) == IF b = 0 THEN a ELSE Gcd(b, a % b)

RECURSIVE LcmUpTo(_)
LcmUpTo(k) == IF k <= 1 THEN 1 ELSE (LcmUpTo(k - 1) * k) \div Gcd(LcmUpTo(k - 1), k)

\* lcm(1..MaxX)^2: a value of f at an integer point has denominator at most
\* lcm(1..MaxX), a value of an envelope segment at an integer point its square.
YUnit == LcmUpTo(MaxX) * LcmUpTo(MaxX)

RECURSIVE SumSeq(_)
SumSeq(s) == IF s = << >> THEN 0 ELSE Head(s) + SumSeq(Tail(s))

Last(s) == s[Len(s)]

\* Python s[j], j may be negative (counted from the end).
PyAt(s, j) == IF j >= 0 THEN s[j + 1] ELSE s[Len(s) + j + 1]

\* Python s[i:j] for 0 <= i; j may be negative.
PySlice(s, i, j) ==
    LET jj == IF j < 0 THEN Len(s) + j ELSE Min2(j, Len(s))
    IN  IF jj <= i THEN << >> ELSE SubSeq(s, i + 1, jj)

\* (dy / dx) * t + y0 of the source, dx # 0; the quotient times t is an integer
\* on the model's inputs.
Line(dy, dx, t, y0) == (dy * t) \div dx + y0

ExactDiv(dy, dx, t) == dx # 0 /\ (dy * t) % dx = 0

\* dy1/dx1 < dy2/dx2 for dx1 > 0, dx2 > 0.
SlopeLess(dy1, dx1, dy2, dx2) == dy1 * dx2 < dy2 * dx1

\* ---------------------------------------------------------------- bisect

\* bisect.bisect / bisect_right: lo, hi as in the library's loop.
RECURSIVE BisectRightLoop(_, _, _, _)
BisectRightLoop(a, p, lo, hi) ==
    IF lo < hi
    THEN LET mid == (lo + hi) \div 2
         IN  IF p < PyAt(a, mid) THEN BisectRightLoop(a, p, lo, mid)
                                 ELSE BisectRightLoop(a, p, mid + 1, hi)
    ELSE lo

bisect_right(a, p) == BisectRightLoop(a, p, 0, Len(a))

RECURSIVE BisectLeftLoop(_, _, _, _)
BisectLeftLoop(a, p, lo, hi) ==
    IF lo < hi
    THEN LET mid == (lo + hi) \div 2
         IN  IF PyAt(a, mid) < p THEN BisectLeftLoop(a, p, mid + 1, hi)
                                 ELSE BisectLeftLoop(a, p, lo, mid)
    ELSE lo

bisect_left(a, p) == BisectLeftLoop(a, p, 0, Len(a))

\* ----------------------------------------------------------- problem tags

Knapsack == "knapsack"
ConcaveKnapsack == "concave-knapsack"
GlobalKnapsack == "global-knapsack"
NetworkFlow == "network flow"
DiscNetworkFlow == "discontinuous network flow"

\* ------------------------------------------------------------ getPLFvalue

getPLFvalue(breakpoints_x, breakpoints_y, point, problem) ==
    IF point <= breakpoints_x[1]
    THEN IF problem = DiscNetworkFlow THEN 0 ELSE breakpoints_y[1]
    ELSE IF point >= Last(breakpoints_x)
    THEN Last(breakpoints_y)
    ELSE LET pos == bisect_right(breakpoints_x, point)
         IN  Line(PyAt(breakpoints_y, pos) - PyAt(breakpoints_y, pos - 1),
                  PyAt(breakpoints_x, pos) - PyAt(breakpoints_x, pos - 1),
                  point - PyAt(breakpoints_x, pos - 1),
                  PyAt(breakpoints_y, pos - 1))

\* ------------------------------------------------------------ getEnvelope

\* Step 1: the PLF over the sub-interval, as two lists.
SubPoints(breakpoints_x, breakpoints_y, interval) ==
    IF interval[1] = breakpoints_x[1] /\ interval[2] = Last(breakpoints_x)
    THEN [x |-> breakpoints_x, y |-> breakpoints_y]
    ELSE LET pos_left == bisect_right(breakpoints_x, interval[1])
             pos_right == bisect_left(breakpoints_x, interval[2])
             y_left == Line(PyAt(breakpoints_y, pos_left) - PyAt(breakpoints_y, pos_left - 1),
                            PyAt(breakpoints_x, pos_left) - PyAt(breakpoints_x, pos_left - 1),
                            interval[1] - PyAt(breakpoints_x, pos_left - 1),
                            PyAt(breakpoints_y, pos_left - 1))
             y_right == Line(PyAt(breakpoints_y, pos_right) - PyAt(breakpoints_y, pos_right - 1),
                             PyAt(breakpoints_x, pos_right) - PyAt(breakpoints_x, pos_right - 1),
                             interval[2] - PyAt(breakpoints_x, pos_right - 1),
                             PyAt(breakpoints_y, pos_right - 1))
         IN  [x |-> <<interval[1]>> \o PySlice(breakpoints_x, pos_left, pos_right)
                                    \o <<interval[2]>>,
              y |-> <<y_left>> \o PySlice(breakpoints_y, pos_left, pos_right)
                               \o <<y_right>>]

\* JumpPoints without the jump.
JumpPointsOff(pts, interval, problem) == pts

\* Step 1a: the fixed-charge jump replaces the leftmost ordinate by 0.
JumpPoints(pts, interval, problem) ==
    IF problem = DiscNetworkFlow /\ interval[1] <= 0
    THEN [pts EXCEPT !.y[1] = 0]
    ELSE pts

\* HullPops never popping: the points are returned as they are.
HullPopsNever(lower_x, lower_y, px, py) == FALSE

\* HullPops popping whatever the slopes are: the envelope is the chord.
HullPopsAlways(lower_x, lower_y, px, py) == Len(lower_x) >= 2

\* The while condition of the hull loop for candidate (px, py).
HullPops(lower_x, lower_y, px, py) ==
    /\ Len(lower_x) >= 2
    /\ SlopeLess(py - PyAt(lower_y, -1), px - PyAt(lower_x, -1),
                 PyAt(lower_y, -1) - PyAt(lower_y, -2),
                 PyAt(lower_x, -1) - PyAt(lower_x, -2))

\* The inner while loop: pop while the turn is not convex.
RECURSIVE HullPop(_, _, _)
HullPop(low, px, py) ==
    IF HullPops(low.x, low.y, px, py)
    THEN HullPop([x |-> SubSeq(low.x, 1, Len(low.x) - 1),
                  y |-> SubSeq(low.y, 1, Len(low.y) - 1)], px, py)
    ELSE low

\* The for loop over the points, from index i (1-based) on.
RECURSIVE HullLoop(_, _, _)
HullLoop(pts, i, low) ==
    IF i > Len(pts.x) THEN low
    ELSE LET popped == HullPop(low, pts.x[i], pts.y[i])
         IN  HullLoop(pts, i + 1, [x |-> Append(popped.x, pts.x[i]),
                                   y |-> Append(popped.y, pts.y[i])])

getEnvelope(breakpoints_x, breakpoints_y, interval, problem) ==
    HullLoop(JumpPoints(SubPoints(breakpoints_x, breakpoints_y, interval),
                        interval, problem),
             1, [x |-> << >>, y |-> << >>])


\* ------------------------------------------------------------ the LP model

\* A Gurobi model: variable bounds (x then e, e free below), the rows in the
\* order they were added, and, once optimised, status, solution and objective.
\* Variables are numbered 1..n here (Python 0..n-1).
EqRow(coef, b) ==
    [kind |-> "eq", coef |-> coef, var |-> 0, rhs |-> b, dy |-> 0, dx |-> 1, ax |-> 0, ay |-> 0]

\* x_var <= b ("le") or x_var >= b ("ge").
BoundRow(kind, var, b) ==
    [kind |-> kind, coef |-> << >>, var |-> var, rhs |-> b, dy |-> 0, dx |-> 1, ax |-> 0, ay |-> 0]

\* e_var >= (dy / dx) * (x_var - ax) + ay.
CutRow(var, dy, dx, ax, ay) ==
    [kind |-> "cut", coef |-> << >>, var |-> var, rhs |-> 0, dy |-> dy, dx |-> dx, ax |-> ax, ay |-> ay]

\* One cut per segment of an envelope (for k in range(1, len(lower_x))).
EnvelopeCuts(var, lower_x, lower_y) ==
    [k \in 1 .. Len(lower_x) - 1 |->
        CutRow(var, lower_y[k + 1] - lower_y[k], lower_x[k + 1] - lower_x[k],
               lower_x[k], lower_y[k])]

RECURSIVE Flatten(_)
Flatten(ss) == IF ss = << >> THEN << >> ELSE Head(ss) \o Flatten(Tail(ss))

RowsOf(model, kind) == {r \in DOMAIN model.rows : model.rows[r].kind = kind}

Dot(coef, x) == SumSeq([i \in DOMAIN coef |-> coef[i] * x[i]])

CutValue(row, xi) == Line(row.dy, row.dx, xi - row.ax, row.ay)

RECURSIVE MaxOf(_)
MaxOf(S) == LET a == CHOOSE a \in S : TRUE
            IN  IF S = {a} THEN a
                ELSE LET b == MaxOf(S \ {a}) IN IF a >= b THEN a ELSE b

RECURSIVE MinOf(_)
MinOf(S) == LET a == CHOOSE a \in S : TRUE
            IN  IF S = {a} THEN a
                ELSE LET b == MinOf(S \ {a}) IN IF a <= b THEN a ELSE b

\* The least e_i the cuts of variable i allow at x_i.
EpiValue(model, i, xi) ==
    MaxOf({CutValue(model.rows[r], xi) :
             r \in {q \in RowsOf(model, "cut") : model.rows[q].var = i}})

\* EpiValue at lo, lo + 1, ..., hi, as a list.
RECURSIVE EpiList(_, _, _, _)
EpiList(model, i, lo, hi) ==
    IF lo > hi THEN << >>
    ELSE <<EpiValue(model, i, lo)>> \o EpiList(model, i, lo + 1, hi)

RECURSIVE EpiTable(_, _)
EpiTable(model, i) ==
    IF i = 0 THEN << >>
    ELSE Append(EpiTable(model, i - 1), EpiList(model, i, model.lb[i], model.ub[i]))

\* The objective at x, the e_i at their least: table[i] lists EpiValue of i.
Objective(model, table, x) ==
    SumSeq([i \in DOMAIN x |-> table[i][x[i] - model.lb[i] + 1]])

\* The values x_i can take: its bounds and the bound rows on it.
RangeOf(model, i) ==
    {v \in model.lb[i] .. model.ub[i] :
        \A r \in DOMAIN model.rows :
            /\ (model.rows[r].kind = "le" /\ model.rows[r].var = i) => v <= model.rows[r].rhs
            /\ (model.rows[r].kind = "ge" /\ model.rows[r].var = i) => v >= model.rows[r].rhs}

RECURSIVE Product(_, _)
Product(model, i) ==
    IF i = 0 THEN {<< >>}
    ELSE {Append(x, v) : x \in Product(model, i - 1), v \in RangeOf(model, i)}

\* Integer points satisfying every row on x; the vertices of the LP are among
\* them (integer data, totally unimodular equality rows, kinks at integers).
BoxPoints(model) ==
    LET eqs == {model.rows[r] : r \in RowsOf(model, "eq")}
    IN  {x \in Product(model, Len(model.lb)) : \A row \in eqs : Dot(row.coef, x) = row.rhs}

\* x_i is held by two independent active rows: a bound, or two cuts of
\* different slope.
Pinned(model, x, i) ==
    \/ x[i] = model.lb[i] \/ x[i] = model.ub[i]
    \/ \E r \in RowsOf(model, "le") \cup RowsOf(model, "ge") :
          model.rows[r].var = i /\ model.rows[r].rhs = x[i]
    \/ \E r, q \in RowsOf(model, "cut") :
          /\ model.rows[r].var = i /\ model.rows[q].var = i
          /\ CutValue(model.rows[r], x[i]) = EpiValue(model, i, x[i])
          /\ CutValue(model.rows[q], x[i]) = EpiValue(model, i, x[i])
          /\ model.rows[r].dy * model.rows[q].dx # model.rows[q].dy * model.rows[r].dx

\* A basic solution: no direction in the kernel of the equality rows moves
\* only variables that are not pinned.
IsVertex(model, x) ==
    LET nn == Len(x)
        free == {i \in 1 .. nn : ~ Pinned(model, x, i)}
    IN  ~ \E d \in [1 .. nn -> {-1, 0, 1}] :
            /\ \E i \in 1 .. nn : d[i] # 0
            /\ \A i \in 1 .. nn : d[i] # 0 => i \in free
            /\ \A r \in RowsOf(model, "eq") : Dot(model.rows[r].coef, d) = 0

\* The optimal basic solutions of the LP, as vectors x ++ e (m.x).
Optimize(model) ==
    LET pts == BoxPoints(model)
        nn == Len(model.lb)
        table == EpiTable(model, nn)
        best == MinOf({Objective(model, table, x) : x \in pts})
    IN  IF pts = {} THEN {}
        ELSE {x \o [i \in 1 .. nn |-> table[i][x[i] - model.lb[i] + 1]] :
              x \in {y \in pts : Objective(model, table, y) = best /\ IsVertex(model, y)}}

\* Gurobi status codes.
OPTIMAL == 2
INFEASIBLE == 3
NUMERIC == 12

\* The models m.optimize() can leave: status, solution, objective value.
Solved(model) ==
    LET sols == Optimize(model)
    IN  IF sols = {}
        THEN {[model EXCEPT !.status = INFEASIBLE]}
        ELSE {[model EXCEPT !.status = OPTIMAL, !.x = sol,
                            !.objval = SumSeq(SubSeq(sol, Len(model.lb) + 1, 2 * Len(model.lb)))] :
              sol \in sols}


\* -------------------------------------------------------------- solve_node

\* The narrowed interval over which the envelope is tightened.
NodeInterval(side, lower_x, pos, branch_point) ==
    IF side = "left" THEN <<PyAt(lower_x, pos - 1), branch_point>>
                     ELSE <<branch_point, PyAt(lower_x, pos)>>

\* solve_node raises instead of returning: lower_x[pos] is past the end of the
\* list (IndexError), or the interval has no width, and then getEnvelope
\* indexes past the breakpoints or the slope of the refined cut is 0/0.
NodeRaises(side, lower_x, pos, branch_point) ==
    \/ side = "right" /\ pos >= Len(lower_x)
    \/ side = "left" /\ PyAt(lower_x, pos - 1) >= branch_point
    \/ side = "right" /\ pos < Len(lower_x) /\ branch_point >= PyAt(lower_x, pos)

\* ChildModel without the parent's cuts on the branched variable.
ChildModelDropping(side, model, branch_index, branch_point, new_lower) ==
    LET Keep(row) == ~ (row.kind = "cut" /\ row.var = branch_index)
    IN  [model EXCEPT !.rows =
            SelectSeq(model.rows, Keep)
            \o <<BoundRow(IF side = "left" THEN "le" ELSE "ge", branch_index, branch_point)>>
            \o EnvelopeCuts(branch_index, new_lower.x, new_lower.y)]

\* ChildModel with the branching row only.
ChildModelUncut(side, model, branch_index, branch_point, new_lower) ==
    [model EXCEPT !.rows =
        model.rows
        \o <<BoundRow(IF side = "left" THEN "le" ELSE "ge", branch_index, branch_point)>>]

\* ChildModel branching strictly beside the branch point.
ChildModelBeside(side, model, branch_index, branch_point, new_lower) ==
    [model EXCEPT !.rows =
        model.rows
        \o <<BoundRow(IF side = "left" THEN "le" ELSE "ge", branch_index,
                      IF side = "left" THEN branch_point - 1 ELSE branch_point + 1)>>
        \o EnvelopeCuts(branch_index, new_lower.x, new_lower.y)]

\* The parent's copy with the branching row and the refined cuts appended.
ChildModel(side, model, branch_index, branch_point, new_lower) ==
    [model EXCEPT !.rows =
        model.rows
        \o <<BoundRow(IF side = "left" THEN "le" ELSE "ge", branch_index, branch_point)>>
        \o EnvelopeCuts(branch_index, new_lower.x, new_lower.y)]

\* ChildEnvelope keeping the parent's breakpoint next to the refined part.
ChildEnvelopeKeeping(side, lower, pos, new_lower) ==
    IF side = "left" THEN PySlice(lower, 0, pos) \o new_lower
                     ELSE new_lower \o PySlice(lower, pos, Len(lower))

\* The new envelope list of the branched variable.
ChildEnvelope(side, lower, pos, new_lower) ==
    IF side = "left" THEN PySlice(lower, 0, pos - 1) \o new_lower
                     ELSE new_lower \o PySlice(lower, pos + 1, Len(lower))

\* The results solve_node can return: (m, env_breakpoints_x, env_breakpoints_y,
\* plf_values), one for each optimal basic solution of the child LP.
solve_node(side, model, branch_index, branch_point, nn, PLFs_x, PLFs_y, pos, env_x, env_y, prob) ==
    LET lower_x == env_x[branch_index]
        lower_y == env_y[branch_index]
        new_lower == getEnvelope(PLFs_x[branch_index], PLFs_y[branch_index],
                                 NodeInterval(side, lower_x, pos, branch_point), prob)
        child == ChildModel(side, model, branch_index, branch_point, new_lower)
    IN  {[m |-> solved,
          env_breakpoints_x |->
              [env_x EXCEPT ![branch_index] = ChildEnvelope(side, lower_x, pos, new_lower.x)],
          env_breakpoints_y |->
              [env_y EXCEPT ![branch_index] = ChildEnvelope(side, lower_y, pos, new_lower.y)],
          plf_values |->
              [i \in 1 .. nn |-> getPLFvalue(PLFs_x[i], PLFs_y[i], solved.x[i], prob)]] :
         solved \in {c \in Solved(child) : c.status = OPTIMAL}}

\* -------------------------------------------------------- branch_and_bound

\* ArgMax taking the last index of the largest entry.
ArgMaxLast(v) == CHOOSE i \in DOMAIN v :
                    /\ \A j \in DOMAIN v : v[j] <= v[i]
                    /\ \A j \in DOMAIN v : j > i => v[j] < v[i]

\* np.argmax: the first index of the largest entry (1-based here).
ArgMax(v) == CHOOSE i \in DOMAIN v :
                /\ \A j \in DOMAIN v : v[j] <= v[i]
                /\ \A j \in DOMAIN v : j < i => v[j] < v[i]

approx_error(model, nn, plf_values) == [i \in 1 .. nn |-> plf_values[i] - model.x[nn + i]]

branch_index(model, nn, plf_values) == ArgMax(approx_error(model, nn, plf_values))

branch_point(model, nn, plf_values) == model.x[branch_index(model, nn, plf_values)]

branch_pos(model, nn, plf_values, env_x) ==
    bisect_right(env_x[branch_index(model, nn, plf_values)],
                 branch_point(model, nn, plf_values))

\* An exception leaves branch_and_bound before a child is solved.
BranchRaises(model, nn, plf_values, env_x) ==
    LET bi == branch_index(model, nn, plf_values)
    IN  \E side \in {"left", "right"} :
           NodeRaises(side, env_x[bi], branch_pos(model, nn, plf_values, env_x),
                      branch_point(model, nn, plf_values))

\* The pairs child_nodes = [left, right] branch_and_bound can return; none when
\* a child LP has no optimal solution to read (m.x in solve_node raises).
branch_and_bound(model, nn, plf_values, env_x, env_y, PLFs_x, PLFs_y, prob) ==
    LET bi == branch_index(model, nn, plf_values)
        bp == branch_point(model, nn, plf_values)
        pos == branch_pos(model, nn, plf_values, env_x)
    IN  {<<l, r>> :
           l \in solve_node("left", model, bi, bp, nn, PLFs_x, PLFs_y, pos, env_x, env_y, prob),
           r \in solve_node("right", model, bi, bp, nn, PLFs_x, PLFs_y, pos, env_x, env_y, prob)}


\* ------------------------------------------------------------------- state

VARIABLES
    \* the arguments of spatialBB (epsilon is the fraction <<num, den>>)
    PLFs_breakpoints_x, PLFs_breakpoints_y, n, K, problem, rhs, epsilon,
    \* Python floats or numpy.float64 in the lists: read only when the program
    \* divides by a global_ub that is zero, and drawn then
    float_type,
    \* where spatialBB is: "start", "loop" (at the while condition),
    \* "returned", "raised" (an exception left it)
    pc,
    \* the last reading of time.time() - sbb_starttime, in seconds
    elapsed,
    \* the locals of spatialBB
    m, global_ub, incumbent,
    nodes_lb, nodes_model, nodes_envelope_x, nodes_envelope_y, nodes_plf_values,
    node_count, root_node_lb, memory_check_time,
    \* memory.percent of the last poll of psutil.virtual_memory(), 0 before the first
    memory,
    left_model, right_model, left_plf_values, right_plf_values, ub_left, ub_right,
    \* m.Status of the child LPs re-solved in the last iteration, in the order
    \* of the loop over the sides
    child_status,
    \* the value returned
    ret,
    \* the envelope harness: the interval of a call of getEnvelope and its result
    interval, lower_x, lower_y,
    \* the evaluator harness: the points getPLFvalue is called at and its results
    point, value,
    \* the branching harness: the objects of a call of branch_and_bound (heap[a]
    \* is the content of the object at address a: the rows of a model, the
    \* addresses held by an outer envelope list, the numbers of an inner one),
    \* its arguments and locals as addresses and values, its list child_nodes,
    \* and the basis statuses each child has when m.optimize() is called (warm)
    heap, bb, child_nodes, warm

inputs == <<PLFs_breakpoints_x, PLFs_breakpoints_y, n, K, problem, rhs, epsilon>>

frontier == <<nodes_lb, nodes_model, nodes_envelope_x, nodes_envelope_y, nodes_plf_values>>

children == <<left_model, right_model, left_plf_values, right_plf_values, ub_left, ub_right,
              child_status>>

objects == <<heap, bb, child_nodes, warm>>

harness == <<interval, lower_x, lower_y, point, value, objects>>

vars == <<inputs, float_type, pc, elapsed, m, global_ub, incumbent, frontier,
          node_count, root_node_lb, memory_check_time, memory, children, ret, harness>>

\* ----------------------------------------------------------------- inputs

\* The strictly increasing lists from lo to hi with any breakpoints between.
RECURSIVE SortedSeq(_)
SortedSeq(S) == IF S = {} THEN << >>
                ELSE LET a == MinOf(S) IN <<a>> \o SortedSeq(S \ {a})

XLists(lo, hi) == {SortedSeq(S \cup {lo, hi}) : S \in SUBSET (lo .. hi)}

\* PLFs over [lo, hi] with ordinates YUnit * v, v in vs.
PLFs(lo, hi, vs) ==
    UNION {{[x |-> xs, y |-> ys] : ys \in [1 .. Len(xs) -> {YUnit * v : v \in vs}]} :
           xs \in XLists(lo, hi)}


\* The K of the memory-heavy regime.
WatchdogK == 10000

\* Relative gaps asked for: 0 and 1/2.
Epsilons == {<<0, 1>>, <<1, 2>>}

\* Ordinates are YUnit * v with v in Heights, or in Depths for the concave
\* problems.
Heights == 0 .. MaxY

Depths == -MaxY .. 0

Call(px, py, k, tag, b, eps) ==
    [px |-> px, py |-> py, n |-> Len(px), K |-> k, problem |-> tag, rhs |-> b, epsilon |-> eps]

\* Slopes sorted in descending order (getPLFs with concave = True).
IsConcave(f) ==
    \A k \in 2 .. Len(f.x) - 1 :
        ~ SlopeLess(f.y[k] - f.y[k - 1], f.x[k] - f.x[k - 1],
                    f.y[k + 1] - f.y[k], f.x[k + 1] - f.x[k])

\* The calls of spatialBB the model starts from.  The lists of one call have
\* the same number of breakpoints (K + 1).
KnapsackCalls ==
    {Call(<<f.x, g.x>>, <<f.y, g.y>>, Len(f.x) - 1, Knapsack, b, eps) :
        f \in PLFs(0, MaxX, Heights), g \in PLFs(0, MaxX, Heights),
        b \in 0 .. 2 * MaxX + 1, eps \in Epsilons}

ConcavePLFs == {f \in PLFs(0, MaxX, Depths) : IsConcave(f)}

ConcaveCalls ==
    {Call(<<f.x, g.x>>, <<f.y, g.y>>, Len(f.x) - 1, ConcaveKnapsack, b, eps) :
        f \in ConcavePLFs, g \in ConcavePLFs,
        b \in 1 .. 2 * MaxX - 1, eps \in Epsilons}

\* One node and its loop: min f(x), the balance row is 0 = rhs[0].
NetworkCalls ==
    {Call(<<f.x>>, <<f.y>>, Len(f.x) - 1, NetworkFlow, <<b>>, eps) :
        f \in PLFs(0, MaxX, Heights), b \in {0, 1}, eps \in Epsilons}

\* The loop arcs of the two-node network: no charge at 0, YUnit elsewhere.
LoopArc(xs) == [x |-> xs, y |-> [k \in DOMAIN xs |-> IF k = 1 THEN 0 ELSE YUnit]]

\* Two nodes, arcs 0->1 and 1->0 with a fixed charge y_0 >= 0 at x_0 = 0 (the
\* generator getDiscontinuousNetworkPLFs is not part of the sources; the
\* comparison model in gurobi_solver.py prepends the point (0, 0)).
DiscNetworkCalls ==
    {Call(<<LoopArc(f.x).x, f.x, g.x, LoopArc(g.x).x>>,
          <<LoopArc(f.x).y, f.y, g.y, LoopArc(g.x).y>>,
          Len(f.x) - 1, DiscNetworkFlow, <<b, -b>>, eps) :
        f \in PLFs(0, MaxX, Heights), g \in PLFs(0, MaxX, Heights),
        b \in 0 .. MaxX - 1, eps \in {<<0, 1>>}}

\* Three variables: any PLF on the full grid and two humps (0 at both ends,
\* YUnit between), which leave open nodes of different bounds side by side.
Hump == [x |-> [k \in 1 .. MaxX + 1 |-> k - 1],
         y |-> [k \in 1 .. MaxX + 1 |-> IF k \in {1, MaxX + 1} THEN 0 ELSE YUnit]]

TripleCalls ==
    {Call(<<f.x, Hump.x, Hump.x>>, <<f.y, Hump.y, Hump.y>>, MaxX, Knapsack, b, <<0, 1>>) :
        f \in {g \in PLFs(0, MaxX, Heights) : Len(g.x) = MaxX + 1},
        b \in {MaxX + 2}}

\* The memory-heavy regime: K = 10000 is passed with the tag knapsack (the
\* program never compares K with the lists it is given).
WatchdogCalls ==
    {Call(<<f.x, f.x>>, <<f.y, f.y>>, WatchdogK, Knapsack, MaxX, <<0, 1>>) :
        f \in {g \in PLFs(0, MaxX, Heights) : Len(g.x) = MaxX + 1}}

\* A tag spatialBB does not know.
UnknownCalls == {Call(<<<<0, MaxX>>>>, <<<<0, YUnit>>>>, 1, "transport", 0, <<0, 1>>)}

\* One variable, f = |x| on [-1, 1] by the breakpoints (-1, 1), (0, 0), (1, 1),
\* knapsack row x = 0.
ConvexTrivialCalls ==
    {Call(<<<<-1, 0, 1>>>>, <<<<YUnit, 0, YUnit>>>>, 2, Knapsack, 0, eps) : eps \in Epsilons}

\* The unit of the ordinates of TwoVariableCalls: quotients by 5 and then by
\* interval widths up to 10 are exact.
FineUnit == 5 * LcmUpTo(10)

\* Two variables, each PLF with the breakpoints (0, 0), (5, -5), (10, -8),
\* tag concave-knapsack, right-hand side 6.
TwoVariableCalls ==
    {Call(<<<<0, 5, 10>>, <<0, 5, 10>>>>,
          <<<<0, -5 * FineUnit, -8 * FineUnit>>, <<0, -5 * FineUnit, -8 * FineUnit>>>>,
          2, ConcaveKnapsack, 6, eps) : eps \in Epsilons}

\* Three nodes, the nine arcs i -> k in the order of the source (arc 3 * i + k,
\* counted from 0): one unit goes from the first node to the last.  The arcs
\* 0 -> 1 and 1 -> 2 cost a hump (0 at both ends, YUnit between), every other
\* arc 2 * YUnit a unit, so the root LP sends the unit along the two humps and
\* both are off by YUnit.
PathArc(j) == [x |-> <<0, 1, 2>>,
               y |-> IF j \in {2, 6} THEN <<0, YUnit, 0>> ELSE <<0, 2 * YUnit, 4 * YUnit>>]

PathCalls ==
    {Call([j \in 1 .. 9 |-> PathArc(j).x], [j \in 1 .. 9 |-> PathArc(j).y],
          2, NetworkFlow, <<1, 0, -1>>, <<0, 1>>)}

Calls ==
    {c \in KnapsackCalls \cup ConcaveCalls \cup NetworkCalls \cup DiscNetworkCalls :
        \A i \in 1 .. c.n : Len(c.px[i]) = c.K + 1}
    \cup TripleCalls \cup WatchdogCalls \cup UnknownCalls
    \cup ConvexTrivialCalls \cup TwoVariableCalls \cup PathCalls

NoModel == [lb |-> << >>, ub |-> << >>, rows |-> << >>, status |-> 0, x |-> << >>, objval |-> 0]

Init ==
    /\ \E c \in Calls :
          /\ PLFs_breakpoints_x = c.px
          /\ PLFs_breakpoints_y = c.py
          /\ n = c.n
          /\ K = c.K
          /\ problem = c.problem
          /\ rhs = c.rhs
          /\ epsilon = c.epsilon
    /\ float_type = "unknown"
    /\ pc = "start"
    /\ elapsed = 0
    /\ m = NoModel
    /\ global_ub = 0
    /\ incumbent = << >>
    /\ nodes_lb = << >>
    /\ nodes_model = << >>
    /\ nodes_envelope_x = << >>
    /\ nodes_envelope_y = << >>
    /\ nodes_plf_values = << >>
    /\ node_count = 0
    /\ root_node_lb = 0
    /\ memory_check_time = 0
    /\ memory = 0
    /\ left_model = NoModel
    /\ right_model = NoModel
    /\ left_plf_values = << >>
    /\ right_plf_values = << >>
    /\ ub_left = 0
    /\ ub_right = 0
    /\ child_status = << >>
    /\ ret = << >>
    /\ interval = << >>
    /\ lower_x = << >>
    /\ lower_y = << >>
    /\ point = << >>
    /\ value = << >>
    /\ heap = << >>
    /\ bb = << >>
    /\ child_nodes = << >>
    /\ warm = << >>

\* ---------------------------------------------------- spatialBB: the root

ISqrt(k) == CHOOSE r \in 0 .. k : r * r <= k /\ k < (r + 1) * (r + 1)

KnapsackTags == {Knapsack, ConcaveKnapsack, GlobalKnapsack}

NetworkTags == {NetworkFlow, DiscNetworkFlow}

\* The equality rows (variable j of the source is j + 1 here).
Constraints ==
    IF problem \in KnapsackTags
    THEN <<EqRow([i \in 1 .. n |-> 1], rhs)>>
    ELSE LET nr == ISqrt(n)
         IN  [i \in 1 .. nr |->
                EqRow([j \in 1 .. n |->
                         (IF (i - 1) * nr <= j - 1 /\ j - 1 < i * nr THEN 1 ELSE 0)
                         - (IF \E q \in 0 .. nr - 1 : nr * q + (i - 1) = j - 1 THEN 1 ELSE 0)],
                      rhs[i])]

\* The envelopes over the full range of each PLF.
RootEnvelopes ==
    [i \in 1 .. n |->
        getEnvelope(PLFs_breakpoints_x[i], PLFs_breakpoints_y[i],
                    <<PLFs_breakpoints_x[i][1], Last(PLFs_breakpoints_x[i])>>, problem)]

RootModel ==
    [lb |-> [i \in 1 .. n |-> PLFs_breakpoints_x[i][1]],
     ub |-> [i \in 1 .. n |-> Last(PLFs_breakpoints_x[i])],
     rows |-> Constraints
              \o Flatten([i \in 1 .. n |->
                            EnvelopeCuts(i, RootEnvelopes[i].x, RootEnvelopes[i].y)]),
     status |-> 0, x |-> << >>, objval |-> 0]

PLFValues(model) ==
    [i \in 1 .. n |->
        getPLFvalue(PLFs_breakpoints_x[i], PLFs_breakpoints_y[i], model.x[i], problem)]

\* Sentinel with a node counted.
SentinelCounted == <<0, 0, 0, 0, 0, 1, 0, 0, 0, 0>>

\* The all-zero tuple returned for an infeasible root.
Sentinel == <<0, 0, 0, 0, 0, 0, 0, 0, 0, 0>>

\* Python's None (a bare return).
None == <<"None">>

\* Lines 60-157: envelopes, root LP, first bounds, the frontier.
Root ==
    /\ pc = "start"
    /\ IF problem \notin KnapsackTags \cup NetworkTags
       THEN /\ pc' = "returned"
            /\ ret' = None
            /\ UNCHANGED <<m, global_ub, incumbent, frontier, node_count, root_node_lb,
                           memory_check_time, memory>>
       ELSE \E solved \in Solved(RootModel) :
              /\ m' = solved
              /\ IF solved.status # OPTIMAL
                 THEN /\ pc' = "returned"
                      /\ ret' = Sentinel
                      /\ UNCHANGED <<global_ub, incumbent, frontier, node_count,
                                     root_node_lb, memory_check_time, memory>>
                 ELSE /\ pc' = "loop"
                      /\ ret' = ret
                      /\ global_ub' = SumSeq(PLFValues(solved))
                      /\ incumbent' = SubSeq(solved.x, 1, n)
                      /\ nodes_lb' = <<solved.objval>>
                      /\ nodes_model' = <<solved>>
                      /\ nodes_envelope_x' = <<[i \in 1 .. n |-> RootEnvelopes[i].x]>>
                      /\ nodes_envelope_y' = <<[i \in 1 .. n |-> RootEnvelopes[i].y]>>
                      /\ nodes_plf_values' = <<PLFValues(solved)>>
                      /\ node_count' = 1
                      /\ root_node_lb' = solved.objval
                      /\ memory_check_time' = 300
                      /\ memory' = memory
    /\ UNCHANGED <<inputs, float_type, elapsed, children, harness>>


\* ---------------------------------------------------- spatialBB: the loop

\* timelimit of the driver, in seconds.
timelimit == 1800

\* The clock advances by 0 or TimeStep seconds between two readings.
TimeStep == 900

\* Readings of psutil.virtual_memory().percent.
MemoryPercents == {79, 80, 90, 95, 98}

Readings == {elapsed, elapsed + TimeStep}

\* The types the lists can hold, once the program has divided by zero.
FloatTypes ==
    IF nodes_lb # << >> /\ global_ub = 0 /\ float_type = "unknown"
    THEN {"python", "numpy"}
    ELSE {float_type}

\* GapTest against twice epsilon.
GapTestLoose(ft) ==
    LET gap == global_ub - nodes_lb[1]
    IN  IF global_ub = 0
        THEN IF ft = "python" THEN "raise"
             ELSE IF gap > 0 THEN "true" ELSE "false"
        ELSE IF gap * epsilon[2] > 2 * epsilon[1] * Abs(global_ub) THEN "true" ELSE "false"

\* GapTest with >= in place of >.
GapTestNonStrict(ft) ==
    LET gap == global_ub - nodes_lb[1]
    IN  IF global_ub = 0
        THEN IF ft = "python" THEN "raise"
             ELSE IF gap >= 0 THEN "true" ELSE "false"
        ELSE IF gap * epsilon[2] >= epsilon[1] * Abs(global_ub) THEN "true" ELSE "false"

\* (global_ub - nodes_lb[0]) / abs(global_ub) > epsilon: "true", "false", or
\* "raise" (ZeroDivisionError of Python floats; numpy yields inf, -inf or nan).
GapTest(ft) ==
    LET gap == global_ub - nodes_lb[1]
    IN  IF global_ub = 0
        THEN IF ft = "python" THEN "raise"
             ELSE IF gap > 0 THEN "true" ELSE "false"
        ELSE IF gap * epsilon[2] > epsilon[1] * Abs(global_ub) THEN "true" ELSE "false"

\* LoopTest stopping at half the time limit.
LoopTestHalfTime(ft, now) ==
    IF nodes_lb = << >> THEN "stop"
    ELSE IF GapTest(ft) = "raise" THEN "raise"
    ELSE IF GapTest(ft) = "false" THEN "stop"
    ELSE IF 2 * now < timelimit THEN "go" ELSE "stop"

\* The while condition at clock reading now: "go", "stop" or "raise".
LoopTest(ft, now) ==
    IF nodes_lb = << >> THEN "stop"
    ELSE IF GapTest(ft) = "raise" THEN "raise"
    ELSE IF GapTest(ft) = "false" THEN "stop"
    ELSE IF now < timelimit THEN "go" ELSE "stop"

\* Result with 0 as the lower bound of an empty frontier.
ResultZeroWhenEmpty(t) ==
    <<t, "grb_time", "lp_time", "env_time", "plf_time", node_count, global_ub,
      IF nodes_lb # << >> THEN nodes_lb[1] ELSE 0, incumbent, root_node_lb>>

\* The tuple returned with sol_time t; the four accounting times are not modelled.
Result(t) ==
    <<t, "grb_time", "lp_time", "env_time", "plf_time", node_count, global_ub,
      IF nodes_lb # << >> THEN nodes_lb[1] ELSE global_ub, incumbent, root_node_lb>>

\* Lines 166-168 and 263-264: the condition fails and spatialBB returns.
LoopExit ==
    /\ pc = "loop"
    /\ \E ft \in FloatTypes, now \in Readings :
          /\ LoopTest(ft, now) = "stop"
          /\ float_type' = ft
          /\ elapsed' = IF nodes_lb # << >> /\ GapTest(ft) = "true" THEN now ELSE elapsed
          /\ ret' = Result(elapsed')
    /\ pc' = "returned"
    /\ UNCHANGED <<inputs, m, global_ub, incumbent, frontier, node_count, root_node_lb,
                   memory_check_time, memory, children, harness>>

\* Line 167 divides by zero.
LoopRaise ==
    /\ pc = "loop"
    /\ \E ft \in FloatTypes :
          /\ LoopTest(ft, elapsed) = "raise"
          /\ float_type' = ft
    /\ pc' = "raised"
    /\ UNCHANGED <<inputs, elapsed, m, global_ub, incumbent, frontier, node_count,
                   root_node_lb, memory_check_time, memory, children, ret, harness>>

\* Polls without the test of K.
PollsAnyK(now) == problem = Knapsack /\ now >= memory_check_time

\* Line 175: the memory is polled in this iteration.
Polls(now) == problem = Knapsack /\ K = WatchdogK /\ now >= memory_check_time

\* Lines 179-186: the next poll.
NextCheck(percent) ==
    IF percent >= 95 THEN memory_check_time + 10
    ELSE IF percent >= 90 THEN memory_check_time + 30
    ELSE IF percent >= 80 THEN memory_check_time + 60
    ELSE memory_check_time + 120

\* Lines 175-178: the poll reads 98% or more and spatialBB returns.
WatchdogAbort ==
    /\ pc = "loop"
    /\ \E ft \in FloatTypes, now \in Readings, percent \in MemoryPercents :
          /\ LoopTest(ft, now) = "go"
          /\ Polls(now)
          /\ percent >= 98
          /\ float_type' = ft
          /\ elapsed' = now
          /\ memory' = percent
          /\ ret' = Result(1801)
    /\ pc' = "returned"
    /\ UNCHANGED <<inputs, m, global_ub, incumbent, frontier, node_count, root_node_lb,
                   memory_check_time, children, harness>>

InsertAt(s, pos, v) == SubSeq(s, 1, pos) \o <<v>> \o SubSeq(s, pos + 1, Len(s))

\* NewUb looking at the left child only.
NewUbLeftOnly(ubl, ubr) == IF ubl < global_ub THEN ubl ELSE global_ub

\* Lines 221-227.
NewUb(ubl, ubr) ==
    IF ubl < global_ub /\ ubl < ubr THEN ubl
    ELSE IF ubr < global_ub THEN ubr
    ELSE global_ub

\* NewIncumbent never replacing the incumbent.
NewIncumbentStale(l, r, ubl, ubr) == incumbent

NewIncumbent(l, r, ubl, ubr) ==
    IF ubl < global_ub /\ ubl < ubr THEN SubSeq(l.m.x, 1, n)
    ELSE IF ubr < global_ub THEN SubSeq(r.m.x, 1, n)
    ELSE incumbent

\* Lines 229-259 on the five parallel lists: each node is a record here.
Nodes == [i \in DOMAIN nodes_lb |->
            [lb |-> nodes_lb[i], m |-> nodes_model[i], env_x |-> nodes_envelope_x[i],
             env_y |-> nodes_envelope_y[i], plf |-> nodes_plf_values[i]]]

NodeOf(c) == [lb |-> c.m.objval, m |-> c.m, env_x |-> c.env_breakpoints_x,
              env_y |-> c.env_breakpoints_y, plf |-> c.plf_values]

Lbs(nodes) == [i \in DOMAIN nodes |-> nodes[i].lb]

\* Inserted appending at the end of the lists.
InsertedLast(nodes, c, ub) == IF c.m.objval < ub THEN Append(nodes, NodeOf(c)) ELSE nodes

\* Inserted putting the child in front of the list.
InsertedFirst(nodes, c, ub) == IF c.m.objval < ub THEN InsertAt(nodes, 0, NodeOf(c)) ELSE nodes

\* Lines 236-251: insert the child if its bound is below ub.
Inserted(nodes, c, ub) ==
    IF c.m.objval < ub
    THEN InsertAt(nodes, bisect_right(Lbs(nodes), c.m.objval), NodeOf(c))
    ELSE nodes

\* Pruned cutting one node too many.
PrunedShort(nodes, ub) == PySlice(nodes, 0, bisect_left(Lbs(nodes), ub) - 1)

\* Pruned cutting nothing.
PrunedNever(nodes, ub) == nodes

\* Lines 253-259.
Pruned(nodes, ub) == PySlice(nodes, 0, bisect_left(Lbs(nodes), ub))

NewNodes(l, r, ub) == Pruned(Inserted(Inserted(Tail(Nodes), l, ub), r, ub), ub)

\* NodesCounted counting the children that enter the frontier.
NodesCountedInserted(l, r, ub) ==
    node_count + (IF l.m.objval < ub THEN 1 ELSE 0) + (IF r.m.objval < ub THEN 1 ELSE 0)

\* Line 261: node_count += 2, whatever became of the children l and r.
NodesCounted(l, r, ub) == node_count + 2

\* The statuses a re-solve can end with: a feasible child LP is solved to
\* optimality, or the dual simplex stops on numerical trouble.
ResolveStatuses(empty) == IF empty THEN {INFEASIBLE} ELSE {OPTIMAL, NUMERIC}

\* The statuses of the child LPs the loop over the sides gets to see: it stops
\* at the first exception, and reading m.x of a child that is not optimal is
\* one (line 330 of solve_node).
ChildStatusRuns(raisesL, raisesR, leftEmpty, rightEmpty) ==
    IF raisesL THEN {<< >>}
    ELSE {<<s>> : s \in ResolveStatuses(leftEmpty) \ {OPTIMAL}}
         \cup (IF leftEmpty THEN {}
               ELSE IF raisesR THEN {<<OPTIMAL>>}
               ELSE {<<OPTIMAL, s>> : s \in ResolveStatuses(rightEmpty)})

\* Lines 166-261: the condition holds and one iteration runs to its end, or
\* an exception leaves branch_and_bound.
Iterate ==
    /\ pc = "loop"
    /\ LET front == nodes_model[1]
           plf == nodes_plf_values[1]
           env_x == nodes_envelope_x[1]
           bi == branch_index(front, n, plf)
           bp == branch_point(front, n, plf)
           pos == branch_pos(front, n, plf, env_x)
           raisesL == NodeRaises("left", env_x[bi], pos, bp)
           raisesR == NodeRaises("right", env_x[bi], pos, bp)
           pairs == IF BranchRaises(front, n, plf, env_x) THEN {}
                    ELSE branch_and_bound(front, n, plf, env_x, nodes_envelope_y[1],
                                          PLFs_breakpoints_x, PLFs_breakpoints_y, problem)
           Empty(side) ==
               solve_node(side, front, bi, bp, n, PLFs_breakpoints_x, PLFs_breakpoints_y,
                          pos, env_x, nodes_envelope_y[1], problem) = {}
           leftEmpty == IF pairs # {} \/ raisesL THEN FALSE ELSE Empty("left")
           rightEmpty == IF pairs # {} \/ raisesL \/ raisesR \/ leftEmpty THEN FALSE
                         ELSE Empty("right")
       IN  \E ft \in FloatTypes, now \in Readings, percent \in MemoryPercents :
             /\ LoopTest(ft, now) = "go"
             /\ float_type' = ft
             /\ elapsed' = now
             /\ IF Polls(now)
                THEN percent < 98 /\ memory_check_time' = NextCheck(percent)
                                  /\ memory' = percent
                ELSE percent = 79 /\ memory_check_time' = memory_check_time
                                  /\ memory' = memory
             /\ m' = nodes_model[1]
             /\ \E statuses \in ChildStatusRuns(raisesL, raisesR, leftEmpty, rightEmpty) :
                   /\ child_status' = statuses
                   /\ IF statuses # <<OPTIMAL, OPTIMAL>>
                      THEN /\ pc' = "raised"
                           /\ UNCHANGED <<global_ub, incumbent, frontier, node_count, left_model,
                                          right_model, left_plf_values, right_plf_values,
                                          ub_left, ub_right>>
                      ELSE \E lr \in pairs :
                             LET l == lr[1]
                                 r == lr[2]
                                 ubl == SumSeq(l.plf_values)
                                 ubr == SumSeq(r.plf_values)
                                 nodes == NewNodes(l, r, NewUb(ubl, ubr))
                             IN  /\ pc' = "loop"
                                 /\ left_model' = l.m
                                 /\ right_model' = r.m
                                 /\ left_plf_values' = l.plf_values
                                 /\ right_plf_values' = r.plf_values
                                 /\ ub_left' = ubl
                                 /\ ub_right' = ubr
                                 /\ global_ub' = NewUb(ubl, ubr)
                                 /\ incumbent' = NewIncumbent(l, r, ubl, ubr)
                                 /\ nodes_lb' = Lbs(nodes)
                                 /\ nodes_model' = [i \in DOMAIN nodes |-> nodes[i].m]
                                 /\ nodes_envelope_x' = [i \in DOMAIN nodes |-> nodes[i].env_x]
                                 /\ nodes_envelope_y' = [i \in DOMAIN nodes |-> nodes[i].env_y]
                                 /\ nodes_plf_values' = [i \in DOMAIN nodes |-> nodes[i].plf]
                                 /\ node_count' = NodesCounted(l, r, NewUb(ubl, ubr))
    /\ UNCHANGED <<inputs, root_node_lb, ret, harness>>

Next == Root \/ LoopExit \/ LoopRaise \/ WatchdogAbort \/ Iterate

Spec == Init /\ [][Next]_vars


\* ------------------------------------------------- the envelope harness

\* PLFs over every range within [-1, MaxX - 1], ordinates of either sign.
EnvPLFs ==
    UNION {PLFs(lo, hi, -MaxY .. MaxY) :
             lo \in -1 .. MaxX - 2, hi \in 0 .. MaxX - 1}

\* A call getEnvelope(f.x, f.y, [a, b], tag) with x_0 <= a < b <= x_K.
EnvInit ==
    /\ \E f \in {g \in EnvPLFs : Len(g.x) >= 2 /\ g.x[1] < Last(g.x)},
          tag \in {Knapsack, DiscNetworkFlow} :
          /\ PLFs_breakpoints_x = <<f.x>>
          /\ PLFs_breakpoints_y = <<f.y>>
          /\ K = Len(f.x) - 1
          /\ problem = tag
          /\ \E a \in f.x[1] .. Last(f.x), b \in f.x[1] .. Last(f.x) :
                a < b /\ interval = <<a, b>>
    /\ n = 1
    /\ rhs = 0
    /\ epsilon = <<0, 1>>
    /\ float_type = "unknown"
    /\ pc = "envelope"
    /\ elapsed = 0
    /\ m = NoModel
    /\ global_ub = 0
    /\ incumbent = << >>
    /\ nodes_lb = << >>
    /\ nodes_model = << >>
    /\ nodes_envelope_x = << >>
    /\ nodes_envelope_y = << >>
    /\ nodes_plf_values = << >>
    /\ node_count = 0
    /\ root_node_lb = 0
    /\ memory_check_time = 0
    /\ memory = 0
    /\ left_model = NoModel
    /\ right_model = NoModel
    /\ left_plf_values = << >>
    /\ right_plf_values = << >>
    /\ ub_left = 0
    /\ ub_right = 0
    /\ child_status = << >>
    /\ ret = << >>
    /\ lower_x = << >>
    /\ lower_y = << >>
    /\ point = << >>
    /\ value = << >>
    /\ heap = << >>
    /\ bb = << >>
    /\ child_nodes = << >>
    /\ warm = << >>

\* getEnvelope is called and returns lower_x, lower_y.
EnvCall ==
    /\ pc = "envelope"
    /\ LET low == getEnvelope(PLFs_breakpoints_x[1], PLFs_breakpoints_y[1], interval, problem)
       IN  lower_x' = low.x /\ lower_y' = low.y
    /\ pc' = "envelope done"
    /\ UNCHANGED <<inputs, float_type, elapsed, m, global_ub, incumbent, frontier,
                   node_count, root_node_lb, memory_check_time, memory, children, ret, interval,
                   point, value, objects>>

\* getPLFvalue is called on the envelope returned, at each of its breakpoints,
\* with the tag of the call.
EnvEvaluate ==
    /\ pc = "envelope done"
    /\ point' = lower_x
    /\ value' = [k \in DOMAIN lower_x |-> getPLFvalue(lower_x, lower_y, lower_x[k], problem)]
    /\ pc' = "envelope evaluated"
    /\ UNCHANGED <<inputs, float_type, elapsed, m, global_ub, incumbent, frontier,
                   node_count, root_node_lb, memory_check_time, memory, children, ret, interval,
                   lower_x, lower_y, objects>>

EnvNext == EnvCall \/ EnvEvaluate

SpecEnv == EnvInit /\ [][EnvNext]_vars


\* ------------------------------------------------ the evaluator harness

\* A call getPLFvalue(f.x, f.y, p, tag), p from one below x_0 to one above x_K.
EvalInit ==
    /\ \E f \in {g \in EnvPLFs : Len(g.x) >= 2 /\ g.x[1] < Last(g.x)},
          tag \in {Knapsack, ConcaveKnapsack, GlobalKnapsack, NetworkFlow, DiscNetworkFlow} :
          /\ PLFs_breakpoints_x = <<f.x>>
          /\ PLFs_breakpoints_y = <<f.y>>
          /\ K = Len(f.x) - 1
          /\ problem = tag
          /\ \E p \in f.x[1] - 1 .. Last(f.x) + 1 : point = <<p>>
    /\ n = 1
    /\ rhs = 0
    /\ epsilon = <<0, 1>>
    /\ float_type = "unknown"
    /\ pc = "evaluate"
    /\ elapsed = 0
    /\ m = NoModel
    /\ global_ub = 0
    /\ incumbent = << >>
    /\ nodes_lb = << >>
    /\ nodes_model = << >>
    /\ nodes_envelope_x = << >>
    /\ nodes_envelope_y = << >>
    /\ nodes_plf_values = << >>
    /\ node_count = 0
    /\ root_node_lb = 0
    /\ memory_check_time = 0
    /\ memory = 0
    /\ left_model = NoModel
    /\ right_model = NoModel
    /\ left_plf_values = << >>
    /\ right_plf_values = << >>
    /\ ub_left = 0
    /\ ub_right = 0
    /\ child_status = << >>
    /\ ret = << >>
    /\ interval = << >>
    /\ lower_x = << >>
    /\ lower_y = << >>
    /\ value = << >>
    /\ heap = << >>
    /\ bb = << >>
    /\ child_nodes = << >>
    /\ warm = << >>

\* getPLFvalue is called and returns value.
EvalCall ==
    /\ pc = "evaluate"
    /\ value' = [k \in DOMAIN point |->
                   getPLFvalue(PLFs_breakpoints_x[1], PLFs_breakpoints_y[1], point[k], problem)]
    /\ pc' = "evaluated"
    /\ UNCHANGED <<inputs, float_type, elapsed, m, global_ub, incumbent, frontier,
                   node_count, root_node_lb, memory_check_time, memory, children, ret, interval,
                   lower_x, lower_y, point, objects>>

EvalNext == EvalCall

SpecEval == EvalInit /\ [][EvalNext]_vars


\* ------------------------------------------------ the branching harness

\* Gurobi's basis statuses: basic, non-basic at the lower bound.
BASIC == 0
NONBASIC_LOWER == -1

\* The status of a variable or row of a copy that no statement has set yet.
NoStatus == 9

\* Two of the bases m.VBasis, m.CBasis the parent can hand on: as many basic
\* positions as the model has rows, the first ones or the last ones of the
\* variables followed by the rows.
ParentBases(model) ==
    LET nv == 2 * Len(model.lb)
        nr == Len(model.rows)
        Status(first, p) == IF (first /\ p <= nr) \/ (~ first /\ p > nv) THEN BASIC
                            ELSE NONBASIC_LOWER
    IN  {[var |-> [h \in 1 .. nv |-> Status(first, h)],
          con |-> [h \in 1 .. nr |-> Status(first, nv + h)]] : first \in BOOLEAN}

\* NewRowStatuses missing the statement after the loop.
NewRowStatusesLoopOnly(statuses, new_lower_x) ==
    [h \in DOMAIN statuses |->
        IF \E k \in 0 .. Len(new_lower_x) - 2 : h = Len(statuses) - k
        THEN BASIC ELSE statuses[h]]

\* Lines 306-308: c[-(k+1)].CBasis = 0 for k in range(0, len(new_lower_x) - 1),
\* then c[-(k+2)].CBasis = 0 with the last k of the loop.
NewRowStatuses(statuses, new_lower_x) ==
    LET last_k == Len(new_lower_x) - 2
    IN  [h \in DOMAIN statuses |->
            IF \/ \E k \in 0 .. last_k : h = Len(statuses) - k
               \/ h = Len(statuses) - (last_k + 1)
            THEN BASIC ELSE statuses[h]]

\* Lines 300-308: the statuses of the variables and rows of the child after
\* the three loops of the warm start.
WarmStart(var, con, nvars, nrows, new_lower_x) ==
    [VBasis |-> [h \in 1 .. nvars |-> IF h <= Len(var) THEN var[h] ELSE NoStatus],
     CBasis |-> NewRowStatuses([h \in 1 .. nrows |-> IF h <= Len(con) THEN con[h] ELSE NoStatus],
                               new_lower_x)]

\* Lines 60-201 of spatialBB, for a call whose root LP is optimal with a gap
\* above epsilon = 0 and whose first iteration gets into branch_and_bound:
\* the state at the entry of the loop over the sides.  The objects: the model
\* at address 1, the outer lists at 2 and 3, the inner lists of variable i at
\* 3 + i (x) and 3 + n + i (y).
BranchEnter ==
    /\ pc = "start"
    /\ problem \in KnapsackTags \cup NetworkTags
    /\ epsilon = <<0, 1>>
    /\ \E solved \in Solved(RootModel), basis \in ParentBases(RootModel) :
          LET plf == PLFValues(solved)
              env_x == [i \in 1 .. n |-> RootEnvelopes[i].x]
              env_y == [i \in 1 .. n |-> RootEnvelopes[i].y]
          IN  /\ solved.status = OPTIMAL
              /\ solved.objval < SumSeq(plf)
              /\ SumSeq(plf) # 0
              /\ ~ BranchRaises(solved, n, plf, env_x)
              /\ m' = solved
              /\ heap' = <<solved.rows, [i \in 1 .. n |-> 3 + i], [i \in 1 .. n |-> 3 + n + i]>>
                         \o env_x \o env_y
              /\ bb' = [m |-> 1, env_breakpoints_x |-> 2, env_breakpoints_y |-> 3,
                        plf_values |-> plf, var |-> basis.var, con |-> basis.con,
                        branch_index |-> branch_index(solved, n, plf),
                        branch_point |-> branch_point(solved, n, plf),
                        pos |-> branch_pos(solved, n, plf, env_x)]
    /\ pc' = "branching"
    /\ UNCHANGED <<inputs, float_type, elapsed, global_ub, incumbent, frontier,
                   node_count, root_node_lb, memory_check_time, memory, children, ret,
                   interval, lower_x, lower_y, point, value, child_nodes, warm>>

\* m.copy(): a new model object, at the address fresh.
ModelCopy(a, fresh) == fresh

\* ListCopy handing on the list itself.
ListShared(a, fresh) == a

\* env_breakpoints_x.copy(): a new outer list, at the address fresh, holding
\* the same inner lists.
ListCopy(a, fresh) == fresh

\* Lines 191-204: one pass of the loop over the sides, solve_node included.
\* The copies are made, the rows are added to the copy of the model, the new
\* inner lists of the branched variable are built and put into the outer lists
\* solve_node was given, and the result is appended to child_nodes.
BranchSide ==
    /\ pc = "branching"
    /\ Len(child_nodes) < 2
    /\ LET side == IF child_nodes = << >> THEN "left" ELSE "right"
           base == Len(heap)
           mc == ModelCopy(bb.m, base + 1)
           exc == ListCopy(bb.env_breakpoints_x, base + 2)
           eyc == ListCopy(bb.env_breakpoints_y, base + 3)
           h1 == heap \o <<heap[bb.m], heap[bb.env_breakpoints_x], heap[bb.env_breakpoints_y]>>
           bi == bb.branch_index
           low_x == h1[h1[exc][bi]]
           low_y == h1[h1[eyc][bi]]
           new_lower == getEnvelope(PLFs_breakpoints_x[bi], PLFs_breakpoints_y[bi],
                                    NodeInterval(side, low_x, bb.pos, bb.branch_point), problem)
           rows == ChildModel(side, [rows |-> h1[mc]], bi, bb.branch_point, new_lower).rows
           h2 == h1 \o <<ChildEnvelope(side, low_x, bb.pos, new_lower.x),
                         ChildEnvelope(side, low_y, bb.pos, new_lower.y)>>
       IN  /\ heap' = [h2 EXCEPT ![mc] = rows,
                                 ![exc] = [h2[exc] EXCEPT ![bi] = base + 4],
                                 ![eyc] = [h2[eyc] EXCEPT ![bi] = base + 5]]
           /\ child_nodes' = Append(child_nodes,
                                    [m |-> mc, env_breakpoints_x |-> exc, env_breakpoints_y |-> eyc])
           /\ warm' = Append(warm, WarmStart(bb.var, bb.con, 2 * n, Len(rows), new_lower.x))
    /\ UNCHANGED <<inputs, float_type, pc, elapsed, m, global_ub, incumbent, frontier,
                   node_count, root_node_lb, memory_check_time, memory, children, ret,
                   interval, lower_x, lower_y, point, value, bb>>

\* Line 206: return child_nodes, comp_times.
BranchReturn ==
    /\ pc = "branching"
    /\ Len(child_nodes) = 2
    /\ pc' = "branched"
    /\ UNCHANGED <<inputs, float_type, elapsed, m, global_ub, incumbent, frontier,
                   node_count, root_node_lb, memory_check_time, memory, children, ret, harness>>

BranchNext == BranchEnter \/ BranchSide \/ BranchReturn

SpecBranch == Init /\ [][BranchNext]_vars


\* ------------------------------------------------------------- properties

\* spatialBB is at the while condition, or has returned a result tuple that
\* is not the sentinel (node_count is 0 in the sentinel only).
AtLoopTest == pc = "loop"

NonSentinelReturn == pc = "returned" /\ Len(ret) = 10 /\ ret[6] # 0

\* F(x) = sum_i f_i(x_i), each f_i as getPLFvalue evaluates it.
TrueValue(x) ==
    SumSeq([i \in 1 .. n |->
              getPLFvalue(PLFs_breakpoints_x[i], PLFs_breakpoints_y[i], x[i], problem)])

\* The feasible set: the box and the equality rows.  F is linear between
\* integer points and lower semicontinuous, the vertices of the cells of the
\* feasible set are integer points, so its minimum is attained at one.
Feasible == BoxPoints(RootModel)

TrueMin == MinOf({TrueValue(x) : x \in Feasible})

\* nodes_lb[0] if len(nodes_lb) != 0 else global_ub.
BestLb == IF nodes_lb # << >> THEN nodes_lb[1] ELSE global_ub

\* Every quotient formed so far is an integer: the cuts of every model in
\* reach, at every integer point of their variable's range.
ModelsInReach ==
    {nodes_model[i] : i \in DOMAIN nodes_model}
    \cup (IF node_count >= 3 THEN {m, left_model, right_model} ELSE {})

ExactArithmetic ==
    \A model \in ModelsInReach : \A r \in RowsOf(model, "cut") :
        \A v \in model.lb[model.rows[r].var] .. model.ub[model.rows[r].var] :
            ExactDiv(model.rows[r].dy, model.rows[r].dx, v - model.rows[r].ax)

\* C1. Certified lower bound: at every evaluation of the loop condition and
\* at every non-sentinel return, the smallest lb of the frontier (global_ub
\* when the frontier is empty) is <= the true global minimum of F over the
\* feasible set, and that minimum is <= global_ub.
C1_CertifiedLowerBound ==
    (AtLoopTest \/ NonSentinelReturn) => BestLb <= TrueMin /\ TrueMin <= global_ub

\* C1 happens: the root bound was below the minimum, nodes were branched and
\* pruned, and spatialBB returned with an empty frontier at the minimum.
C1_Witness ==
    /\ NonSentinelReturn
    /\ node_count >= 5
    /\ nodes_lb = << >>
    /\ root_node_lb < TrueMin
    /\ ret[7] = TrueMin
    /\ ret[8] = TrueMin

\* C2. When spatialBB leaves the loop for a reason other than the time limit
\* or the watchdog abort, the returned bounds satisfy
\* (upper_bound - lower_bound) / |upper_bound| <= epsilon (cross-multiplied;
\* sol_time is below timelimit exactly at those returns).
C2_GapAtExit ==
    (NonSentinelReturn /\ ret[1] < timelimit) =>
        (ret[7] - ret[8]) * epsilon[2] <= epsilon[1] * Abs(ret[7])

\* C2 happens: after branching, the gap test fails with open nodes left and a
\* positive gap.
C2_Witness ==
    /\ NonSentinelReturn
    /\ ret[1] < timelimit
    /\ node_count >= 3
    /\ nodes_lb # << >>
    /\ ret[8] < ret[7]

XPart(model) == SubSeq(model.x, 1, n)

C3_State ==
    (AtLoopTest \/ NonSentinelReturn) =>
        global_ub = TrueValue(incumbent) /\ incumbent \in Feasible

C3_Step ==
    pc' = "loop" =>
        \/ pc = "start" /\ incumbent' = XPart(m') /\ m'.status = OPTIMAL
        \/ pc = "loop" /\ incumbent' = incumbent
        \/ pc = "loop" /\ incumbent' \in {XPart(left_model'), XPart(right_model')}

\* C3. After root initialisation and after every iteration global_ub equals
\* sum_i getPLFvalue(f_i, incumbent_i), and incumbent is the x-part of the LP
\* solution of a node (the root, a child of this iteration, or the incumbent
\* kept), so it satisfies the bounds and the equality constraints.
C3_IncumbentAttainsUb == []C3_State /\ [][C3_Step]_vars

\* C3 happens: an iteration replaced the root's incumbent by the left child's
\* solution.
C3_Witness ==
    /\ AtLoopTest
    /\ node_count = 3
    /\ incumbent = XPart(left_model)
    /\ incumbent # XPart(m)
    /\ global_ub = ub_left
    /\ global_ub < TrueValue(XPart(m))

\* The models and cached PL values of the solved nodes in reach: the open
\* nodes (the root among them until it is popped) and the last two children.
SolvedNodes ==
    {[m |-> nodes_model[i], plf |-> nodes_plf_values[i]] : i \in DOMAIN nodes_model}
    \cup (IF node_count >= 3
          THEN {[m |-> left_model, plf |-> left_plf_values],
                [m |-> right_model, plf |-> right_plf_values]}
          ELSE {})

EpiBelowTrue(nd) ==
    /\ \A i \in 1 .. n :
          /\ nd.plf[i] = getPLFvalue(PLFs_breakpoints_x[i], PLFs_breakpoints_y[i],
                                     nd.m.x[i], problem)
          /\ nd.m.x[n + i] <= nd.plf[i]
    /\ nd.m.objval = SumSeq(SubSeq(nd.m.x, n + 1, 2 * n))
    /\ nd.m.objval <= SumSeq(nd.plf)

\* Every cut of the model is <= f_i over the whole range of its variable: at
\* the integer points, and to the right of x_0 (where f_i tends to y_0).
CutsUnderEstimate(model) ==
    \A r \in RowsOf(model, "cut") :
        LET row == model.rows[r]
            range == RangeOf(model, row.var)
        IN  \A v \in range :
               /\ CutValue(row, v) <=
                     getPLFvalue(PLFs_breakpoints_x[row.var], PLFs_breakpoints_y[row.var],
                                 v, problem)
               /\ (v = PLFs_breakpoints_x[row.var][1] /\ \E w \in range : w > v)
                     => CutValue(row, v) <= PLFs_breakpoints_y[row.var][1]

\* C7. At every solved node, for every variable i the epigraph value e_i* is
\* <= the cached true value p_i* = f_i(x_i*), hence lb = sum e_i* <= sum p_i*;
\* every cut accumulated in the node's LP under-estimates f_i on the node's
\* whole current domain of x_i.
C7_RelaxationSound ==
    (AtLoopTest \/ NonSentinelReturn) =>
        \A nd \in SolvedNodes : EpiBelowTrue(nd) /\ CutsUnderEstimate(nd.m)

\* C7 happens: a node two levels down, with a strict gap e_i* < p_i*, holds a
\* refined cut built on a sub-interval that starts right of a point of the
\* variable's domain.
C7_Witness ==
    /\ AtLoopTest
    /\ node_count >= 5
    /\ \E i \in 1 .. n : left_model.x[n + i] < left_plf_values[i]
    /\ \E r \in RowsOf(left_model, "cut") :
          /\ r > Len(m.rows)
          /\ \E v \in RangeOf(left_model, left_model.rows[r].var) :
                v < left_model.rows[r].ax

\* The child is the parent with rows only added: the branching bound, then
\* the refined cuts.
RowsAdded(parent, child) ==
    /\ child.lb = parent.lb /\ child.ub = parent.ub
    /\ Len(child.rows) >= Len(parent.rows) + 2
    /\ SubSeq(child.rows, 1, Len(parent.rows)) = parent.rows
    /\ child.rows[Len(parent.rows) + 1].kind \in {"le", "ge"}
    /\ \A r \in Len(parent.rows) + 2 .. Len(child.rows) : child.rows[r].kind = "cut"

\* C8. For every node popped (m), each of its two children's LP objective
\* value is >= the parent's, the child LP being the parent's with rows only
\* added and none removed.
C8_MonotoneLowerBound ==
    ((AtLoopTest \/ NonSentinelReturn) /\ node_count >= 3) =>
        \A child \in {left_model, right_model} :
            child.objval >= m.objval /\ RowsAdded(m, child)

\* C8 happens: two levels down, both children are strictly above the parent.
C8_Witness ==
    /\ AtLoopTest
    /\ node_count >= 5
    /\ left_model.objval > m.objval
    /\ right_model.objval > m.objval

Min3(a, b, c) == Min2(a, Min2(b, c))

C9_Step ==
    (pc = "loop" /\ pc' = "loop") =>
        /\ global_ub' = Min3(global_ub, ub_left', ub_right')
        /\ global_ub' <= global_ub
        /\ (incumbent' # incumbent) <=> (global_ub' < global_ub)

\* C9. In every iteration the new global_ub is min(old global_ub, ub_left,
\* ub_right), whatever their order and ties; global_ub never increases; the
\* incumbent changes exactly when global_ub strictly decreases.
C9_MonotoneUpperBound == [][C9_Step]_vars

\* C9 happens: the two children tie strictly below the root's upper bound,
\* and the right child's solution became the incumbent.
C9_Witness ==
    /\ AtLoopTest
    /\ node_count = 3
    /\ ub_left = ub_right
    /\ ub_right < TrueValue(XPart(m))
    /\ global_ub = ub_right
    /\ incumbent = XPart(right_model)
    /\ incumbent # XPart(left_model)

Sorted(s) == \A i, j \in DOMAIN s : i < j => s[i] <= s[j]

\* C10. After root initialisation and after every iteration nodes_lb is
\* sorted ascending (and lists the objective values of nodes_model), so
\* nodes_lb[0] is the minimum lb among the open nodes.
C10_FrontierOrdering ==
    (AtLoopTest \/ NonSentinelReturn) =>
        /\ Sorted(nodes_lb)
        /\ Len(nodes_model) = Len(nodes_lb)
        /\ \A i \in DOMAIN nodes_lb : nodes_lb[i] = nodes_model[i].objval

\* C10 happens: three open nodes of different bounds, a child of the last
\* iteration inserted behind an older node.
C10_Witness ==
    /\ AtLoopTest
    /\ Len(nodes_lb) >= 3
    /\ nodes_lb[1] < nodes_lb[3]
    /\ nodes_model[1] \notin {left_model, right_model}
    /\ nodes_model[2] \in {left_model, right_model}

\* ----------------------------------------- properties of getEnvelope

EnvelopeReturned == pc = "envelope done"

\* The PLF of the call, evaluated with the call's tag and without the jump.
F(x) == getPLFvalue(PLFs_breakpoints_x[1], PLFs_breakpoints_y[1], x, problem)

Plain(x) == getPLFvalue(PLFs_breakpoints_x[1], PLFs_breakpoints_y[1], x, Knapsack)

\* The piecewise-linear interpolation of the points (xs, ys) at p.
Interpolate(xs, ys, p) ==
    LET k == CHOOSE k \in 1 .. Len(xs) - 1 : xs[k] <= p /\ p <= xs[k + 1]
    IN  Line(ys[k + 1] - ys[k], xs[k + 1] - xs[k], p - xs[k], ys[k])

\* C4. For every PLF, every interval [a, b] with x_0 <= a < b <= x_K and
\* either tag, the interpolation of the envelope is <= f (getPLFvalue with
\* the same tag) at every x of [a, b] -- at the integer points and, f being
\* linear between them, just right of x_0 where f tends to y_0 -- with
\* equality at each breakpoint of the envelope.
C4_EnvelopeUnderEstimator ==
    EnvelopeReturned =>
        /\ \A x \in interval[1] .. interval[2] : Interpolate(lower_x, lower_y, x) <= F(x)
        /\ interval[1] = PLFs_breakpoints_x[1][1] => lower_y[1] <= PLFs_breakpoints_y[1][1]
        /\ \A k \in DOMAIN lower_x : lower_y[k] = F(lower_x[k])

\* What does hold: the same with the jump off, or with the jump at x_0 = 0
\* and a fixed charge y_0 >= 0.
UnderEstimatorAtOrigin ==
    (problem = DiscNetworkFlow =>
        PLFs_breakpoints_x[1][1] = 0 /\ PLFs_breakpoints_y[1][1] >= 0)
    => C4_EnvelopeUnderEstimator

\* C4 fails here: the tag is discontinuous network flow, x_0 = a > 0 and
\* y_0 > 0; the envelope starts at (a, y_0) and getPLFvalue gives 0 at a.
C4_Failure ==
    /\ EnvelopeReturned
    /\ problem = DiscNetworkFlow
    /\ interval[1] = PLFs_breakpoints_x[1][1]
    /\ interval[1] > 0
    /\ lower_y[1] = PLFs_breakpoints_y[1][1]
    /\ lower_y[1] > 0
    /\ F(interval[1]) = 0

\* The slope of segment k of the envelope is below that of segment k + 1.
SlopeRises(k) ==
    SlopeLess(lower_y[k + 1] - lower_y[k], lower_x[k + 1] - lower_x[k],
              lower_y[k + 2] - lower_y[k + 1], lower_x[k + 2] - lower_x[k + 1])

\* C5. For every PLF (collinear consecutive breakpoints included) and every
\* interval, the slopes of consecutive segments of the envelope are strictly
\* increasing.
C5_SlopesStrictlyIncreasing ==
    EnvelopeReturned => \A k \in 1 .. Len(lower_x) - 2 : SlopeRises(k)

\* C5 fails here: three consecutive breakpoints of the envelope on one line.
C5_Failure ==
    /\ EnvelopeReturned
    /\ \E k \in 1 .. Len(lower_x) - 2 :
          (lower_y[k + 1] - lower_y[k]) * (lower_x[k + 2] - lower_x[k + 1])
              = (lower_y[k + 2] - lower_y[k + 1]) * (lower_x[k + 1] - lower_x[k])

\* What does hold of the slopes: they never decrease.
SlopesNonDecreasing ==
    EnvelopeReturned =>
        \A k \in 1 .. Len(lower_x) - 2 :
            ~ SlopeLess(lower_y[k + 2] - lower_y[k + 1], lower_x[k + 2] - lower_x[k + 1],
                        lower_y[k + 1] - lower_y[k], lower_x[k + 1] - lower_x[k])

\* C6. getEnvelope returns at least two breakpoints; the first is (a, f(a))
\* and the last (b, f(b)), f interpolated without the jump, except that with
\* the tag discontinuous network flow and a <= 0 the first is (a, 0).
C6_EnvelopeEndpoints ==
    EnvelopeReturned =>
        /\ Len(lower_x) >= 2
        /\ Len(lower_y) = Len(lower_x)
        /\ lower_x[1] = interval[1]
        /\ Last(lower_x) = interval[2]
        /\ Last(lower_y) = Plain(interval[2])
        /\ lower_y[1] = IF problem = DiscNetworkFlow /\ interval[1] <= 0
                        THEN 0 ELSE Plain(interval[1])

\* C6 happens: the jump moved the first point to (a, 0), the hull loop removed
\* a point, and both ends are still there.
C6_Witness ==
    /\ EnvelopeReturned
    /\ problem = DiscNetworkFlow
    /\ interval[1] <= 0
    /\ Plain(interval[1]) # 0
    /\ lower_y[1] = 0
    /\ Len(lower_x) = 2
    /\ interval[2] - interval[1] >= 2
    /\ interval[2] < Last(PLFs_breakpoints_x[1])
    /\ \E k \in DOMAIN PLFs_breakpoints_x[1] :
          interval[1] < PLFs_breakpoints_x[1][k] /\ PLFs_breakpoints_x[1][k] < interval[2]

\* ------------------------------------------------ fathoming and exits

\* An iteration has run to its end and spatialBB is back at the while
\* condition.
IterationDone == pc = "loop" /\ pc' = "loop"

InFrontier(model) == \E i \in DOMAIN nodes_model : nodes_model[i] = model

C11_Step ==
    IterationDone =>
        /\ \A i \in DOMAIN nodes_lb' : nodes_lb'[i] < global_ub'
        /\ \A c \in {left_model', right_model'} :
              (\E i \in DOMAIN nodes_model' : nodes_model'[i] = c) => c.objval < global_ub'

\* C11. At the end of every iteration every node left in the frontier has
\* lb < global_ub, and a child is in the frontier only if its lb is below the
\* global_ub updated in that iteration.
C11_Fathoming == [][C11_Step]_vars

\* C11 happens: two levels down, one child was inserted next to an older node
\* and the other, at or above global_ub, was not.
C11_Witness ==
    /\ AtLoopTest
    /\ node_count >= 5
    /\ Len(nodes_lb) >= 2
    /\ \E c \in {left_model, right_model} : InFrontier(c)
    /\ \E c \in {left_model, right_model} : ~ InFrontier(c) /\ c.objval >= global_ub

\* ------------------------------------------------------------ scenarios

\* The call is the one of ConvexTrivialCalls.
ConvexTrivial == PLFs_breakpoints_x = <<<<-1, 0, 1>>>> /\ problem = Knapsack /\ rhs = 0

\* A returned result with one node, upper bound 0 and incumbent 0.
TrivialResult == Len(ret) = 10 /\ ret[6] = 1 /\ ret[7] = 0 /\ ret[9] = <<0>>

\* C12. For n = 1, breakpoints (-1,1),(0,0),(1,1), knapsack with rhs 0,
\* spatialBB returns normally with node_count = 1, upper_bound = 0 and
\* incumbent = 0, without branching; and whenever global_ub is exactly 0 at a
\* check of the loop condition the check does not raise.
C12_ZeroOptimum ==
    /\ [](ConvexTrivial => /\ pc # "raised"
                           /\ pc = "returned" => TrivialResult)
    /\ [][(pc = "loop" /\ global_ub = 0) => ~ LoopRaise]_vars

\* C12 fails here: the call of the scenario, Python floats, the root is tight
\* with global_ub = 0 and the while condition divides by zero.
C12_Failure ==
    /\ ConvexTrivial
    /\ pc = "raised"
    /\ float_type = "python"
    /\ node_count = 1
    /\ global_ub = 0
    /\ nodes_lb = <<0>>
    /\ incumbent = <<0>>

\* What does hold: with numpy floats 0/0 is nan, the condition is false and
\* the result of the scenario is returned.
TrivialReturnsUnlessRaised ==
    (ConvexTrivial /\ pc = "returned") => (TrivialResult /\ float_type = "numpy")

\* The call is the one of TwoVariableCalls.
TwoVariable ==
    PLFs_breakpoints_x = <<<<0, 5, 10>>, <<0, 5, 10>>>> /\ problem = ConcaveKnapsack /\ rhs = 6

\* -5.6 and -6 in the unit of the ordinates.
AllToOneValue == -(28 * FineUnit) \div 5

SplitValue == -6 * FineUnit

\* C13 as stated.  For the concave-knapsack call with n = 2, breakpoints
\* (0,0),(5,-5),(10,-8) and rhs = 6, spatialBB returns x = (6,0) or (0,6)
\* and global_ub = -5.6 within epsilon.
C13_AllToOne ==
    (TwoVariable /\ pc = "returned") =>
        /\ ret[9] \in {<<6, 0>>, <<0, 6>>}
        /\ Abs(ret[7] - AllToOneValue) * epsilon[2] <= epsilon[1] * Abs(AllToOneValue)

\* C13 amended.  The slopes -1 and -3/5 increase: the PLF is convex, its
\* envelope is the PLF, and the root LP is tight.  spatialBB returns at the
\* first check with one node, x = (1,5) or (5,1) and both bounds -6, the
\* minimum of f_1 + f_2 over the feasible set; -5.6 at (6,0) is above it.
C13_SplitOptimum ==
    TwoVariable =>
        /\ pc # "raised"
        /\ TrueMin = SplitValue
        /\ TrueValue(<<6, 0>>) = AllToOneValue /\ TrueValue(<<0, 6>>) = AllToOneValue
        /\ pc = "returned" =>
              /\ ret[6] = 1
              /\ ret[9] \in {<<1, 5>>, <<5, 1>>}
              /\ ret[7] = SplitValue /\ ret[8] = SplitValue

\* C13 happens: the call returned x = (1, 5) at -6 with the envelopes equal
\* to the PLFs.
C13_Witness ==
    /\ TwoVariable
    /\ pc = "returned"
    /\ ret[9] = <<1, 5>>
    /\ ret[7] = SplitValue
    /\ nodes_envelope_x = <<PLFs_breakpoints_x>>
    /\ nodes_envelope_y = <<PLFs_breakpoints_y>>

\* ------------------------------------------------------- failure returns

\* A 10-tuple was returned.
TupleReturned == pc = "returned" /\ Len(ret) = 10

\* The driver's test sBB_bestpoint == 0: the field is the integer 0 in the
\* sentinel (node_count 0) and a list of n >= 1 numbers in every other tuple.
C14_State ==
    TupleReturned =>
        IF m.status # OPTIMAL
        THEN /\ \A k \in 1 .. 10 : ret[k] = 0
             /\ nodes_lb = << >> /\ nodes_model = << >> /\ nodes_plf_values = << >>
             /\ nodes_envelope_x = << >> /\ nodes_envelope_y = << >>
             /\ node_count = 0 /\ incumbent = << >>
             /\ left_model = NoModel /\ right_model = NoModel
        ELSE /\ ret[6] >= 1
             /\ Len(ret[9]) = n /\ n >= 1

C14_Step ==
    (pc = "start" /\ problem \in KnapsackTags \cup NetworkTags /\ m'.status # OPTIMAL) =>
        /\ pc' = "returned"
        /\ Len(ret') = 10

\* C14. If the root LP's status is not optimal, spatialBB returns the
\* all-zero 10-tuple at once: no PL value, no frontier, no iteration; the
\* incumbent field is 0 in that tuple and in no other.
C14_InfeasibleRoot == []C14_State /\ [][C14_Step]_vars

\* C14 happens: a knapsack row no point of the box satisfies, and the
\* sentinel returned.
C14_Witness ==
    /\ TupleReturned
    /\ m.status = INFEASIBLE
    /\ ret[9] = 0
    /\ problem = Knapsack
    /\ rhs > SumSeq([i \in 1 .. n |-> Last(PLFs_breakpoints_x[i])])

UnknownTag == problem \notin KnapsackTags \cup NetworkTags

\* C15. Called with a tag outside the five known ones, spatialBB reports the
\* failure as a result tuple of the shape of its other outcomes (ten fields
\* the caller can unpack), solves no LP and raises nothing.
C15_UnknownTagReported ==
    (UnknownTag /\ pc # "start") =>
        /\ pc = "returned"
        /\ Len(ret) = 10
        /\ m = NoModel

\* C15 fails here: the bare return hands None to the caller.
C15_Failure ==
    /\ UnknownTag
    /\ pc = "returned"
    /\ ret = None
    /\ m = NoModel
    /\ node_count = 0

\* What does hold: no LP is solved and spatialBB itself raises nothing; what
\* it returns is None.
UnknownTagReturnsNone ==
    (UnknownTag /\ pc # "start") =>
        /\ pc = "returned"
        /\ ret = None
        /\ m = NoModel

\* The iteration that ends in the primed state re-solved a child LP to a
\* status other than optimal.
ChildNotOptimal ==
    pc = "loop" /\ \E k \in DOMAIN child_status' : child_status'[k] # OPTIMAL

C16_Step ==
    ChildNotOptimal =>
        /\ pc' = "loop"
        /\ Len(child_status') = 2
        /\ node_count' = node_count + 2
        /\ \A i \in DOMAIN nodes_model' : nodes_model'[i].status = OPTIMAL
        /\ global_ub' <= global_ub

\* C16. If the re-solve of a child LP ends with a status other than optimal,
\* the child is fathomed: it is not put in the frontier, global_ub and the
\* incumbent do not come from it, and the iteration goes on with the other
\* child and the rest of the frontier.
C16_ChildFathomed == [][C16_Step]_vars

\* C16 fails here: the left child was solved, the right child's re-solve
\* stopped on numerical trouble, and an exception left spatialBB with open
\* nodes in the frontier.
C16_Failure ==
    /\ pc = "raised"
    /\ child_status = <<OPTIMAL, NUMERIC>>
    /\ node_count >= 3
    /\ Len(nodes_lb) >= 2
    /\ ret = << >>

\* What does hold: a model in the frontier is an optimal one.
FrontierOptimal ==
    \A i \in DOMAIN nodes_model : nodes_model[i].status = OPTIMAL


\* ---------------------------------------------------------- the evaluator

Evaluated == pc = "evaluated"

\* C17. For a point <= x_0 getPLFvalue returns 0 only under the tag
\* discontinuous network flow with x_0 <= 0 and y_0 in every other case; for
\* a point >= x_K it returns y_K.
C17_BoundaryRule ==
    Evaluated =>
        LET xs == PLFs_breakpoints_x[1]
            ys == PLFs_breakpoints_y[1]
        IN  /\ point[1] <= xs[1] =>
                value[1] = (IF problem = DiscNetworkFlow /\ xs[1] <= 0 THEN 0 ELSE ys[1])
            /\ point[1] >= Last(xs) => value[1] = Last(ys)

\* A call under the tag discontinuous network flow at a point <= x_0, with
\* x_0 > 0 and y_0 # 0, that returned 0.
C17_Failure ==
    /\ Evaluated
    /\ problem = DiscNetworkFlow
    /\ PLFs_breakpoints_x[1][1] > 0
    /\ PLFs_breakpoints_y[1][1] # 0
    /\ point[1] <= PLFs_breakpoints_x[1][1]
    /\ value[1] = 0

\* What the evaluator does at the boundaries: left of x_0 the tag alone
\* decides between 0 and y_0.
BoundaryByTag ==
    Evaluated =>
        LET xs == PLFs_breakpoints_x[1]
            ys == PLFs_breakpoints_y[1]
        IN  /\ point[1] <= xs[1] =>
                value[1] = (IF problem = DiscNetworkFlow THEN 0 ELSE ys[1])
            /\ point[1] >= Last(xs) => value[1] = Last(ys)


EnvelopeEvaluated == pc = "envelope evaluated"

\* C18. For every envelope (ex, ey) returned by getEnvelope, over any
\* interval and under either tag, and every index k, getPLFvalue(ex, ey,
\* ex[k], problem) with the same tag is exactly ey[k].
C18_RoundTrip ==
    EnvelopeEvaluated =>
        /\ Len(value) = Len(lower_y)
        /\ \A k \in DOMAIN lower_y : value[k] = lower_y[k]

\* An envelope under the tag discontinuous network flow that starts right of
\* 0 at a nonzero ordinate, evaluated to 0 at its first breakpoint.
C18_Failure ==
    /\ EnvelopeEvaluated
    /\ problem = DiscNetworkFlow
    /\ lower_x[1] > 0
    /\ lower_y[1] # 0
    /\ value[1] = 0

\* The round trip is exact at every breakpoint but the first, and at the
\* first one as well when the jump is off or the envelope starts at 0.
RoundTripButFirst ==
    EnvelopeEvaluated =>
        /\ Len(value) = Len(lower_y)
        /\ \A k \in DOMAIN lower_y : k > 1 => value[k] = lower_y[k]
        /\ value[1] = (IF problem = DiscNetworkFlow THEN 0 ELSE lower_y[1])
        /\ problem = DiscNetworkFlow /\ interval[1] <= 0 => lower_y[1] = 0


\* ------------------------------------------------------- exit conditions

\* (global_ub - nodes_lb[0]) / abs(global_ub) <= epsilon, cross-multiplied.
GapMet == (global_ub - nodes_lb[1]) * epsilon[2] <= epsilon[1] * Abs(global_ub)

ReturnFromLoop == pc # "start" /\ pc' = "returned"

ChildrenSolved ==
    /\ child_status' = <<OPTIMAL, OPTIMAL>>
    /\ left_model'.status = OPTIMAL
    /\ right_model'.status = OPTIMAL
    /\ left_model' # m'
    /\ right_model' # m'

FrontierUpdated ==
    /\ m' = nodes_model[1]
    /\ node_count' = node_count + 2
    /\ Len(nodes_model') <= Len(nodes_model) + 1
    /\ \A j \in DOMAIN nodes_model' :
          nodes_model'[j] \in {left_model', right_model'}
                              \cup {nodes_model[i] : i \in 2 .. Len(nodes_model)}

C19_Step ==
    /\ ReturnFromLoop =>
          /\ AtLoopTest
          /\ Len(ret') = 10
          /\ \/ nodes_lb = << >>
             \/ GapMet
             \/ elapsed' >= timelimit
             \/ ret'[1] = 1801
    /\ IterationDone => ChildrenSolved /\ FrontierUpdated
    /\ AtLoopTest => IterationDone \/ ReturnFromLoop \/ pc' = "raised"

\* C19. After a feasible root spatialBB returns only from the checks at the
\* top of an iteration, and then the frontier is empty, the relative gap is
\* <= epsilon, the time read is >= timelimit, or the watchdog aborts; a step
\* from one evaluation of the checks to the next has built and solved both
\* children and updated the frontier.
C19_ExitConditions == [][C19_Step]_vars

\* C19 happens: after an iteration the frontier is not empty, the gap is above
\* epsilon, and spatialBB returned on the time limit.
C19_Witness ==
    /\ TupleReturned
    /\ node_count >= 3
    /\ child_status = <<OPTIMAL, OPTIMAL>>
    /\ nodes_lb # << >>
    /\ ~ GapMet
    /\ elapsed >= timelimit
    /\ ret[1] = elapsed


\* ------------------------------------------------------------ the watchdog

Abort == pc = "loop" /\ pc' = "returned" /\ ret'[1] = 1801

\* psutil.virtual_memory() was read in this step.
Polled == pc = "loop" /\ (Abort \/ memory_check_time' # memory_check_time)

C20_Step ==
    /\ Polled =>
          /\ problem = Knapsack
          /\ K = 10000
          /\ elapsed' >= 300
          /\ Abort <=> memory' >= 98
    /\ Abort =>
          /\ ret' = <<1801, "grb_time", "lp_time", "env_time", "plf_time", node_count,
                      global_ub, BestLb, incumbent, root_node_lb>>
          /\ UNCHANGED <<node_count, global_ub, frontier, incumbent, root_node_lb>>
    /\ ~ Polled => memory' = memory

\* C20. spatialBB polls the memory, and can return with sol_time = 1801, only
\* under the tag knapsack with K = 10000 and after 300 s; it aborts exactly
\* when the poll reads >= 98 %, and the tuple then holds 1801 and the
\* unchanged node_count, global_ub, lb of the frontier's front, incumbent and
\* root_node_lb.  Under any other tag or K there is no poll and no such return.
C20_Watchdog ==
    /\ [][C20_Step]_vars
    /\ [](TupleReturned /\ ret[1] = 1801 => problem = Knapsack /\ K = 10000 /\ memory >= 98)
    /\ [](problem # Knapsack \/ K # 10000 => memory = 0 /\ memory_check_time \in {0, 300})

\* C20 happens: a first poll read less than 98 % and put the next poll off,
\* an iteration ran, and a later poll read 98 % and spatialBB returned 1801.
C20_Witness ==
    /\ TupleReturned
    /\ ret[1] = 1801
    /\ memory = 98
    /\ memory_check_time > 300
    /\ node_count >= 3
    /\ ret[6] = node_count
    /\ ret[8] = nodes_lb[1]


\* ------------------------------------------------- the children of a node

\* Row r of model holds at the point pt = x ++ e.
RowHolds(model, r, pt) ==
    LET row == model.rows[r]
        nn == Len(model.lb)
    IN  CASE row.kind = "eq" -> Dot(row.coef, SubSeq(pt, 1, nn)) = row.rhs
          [] row.kind = "le" -> pt[row.var] <= row.rhs
          [] row.kind = "ge" -> pt[row.var] >= row.rhs
          [] row.kind = "cut" -> pt[nn + row.var] >= CutValue(row, pt[row.var])

\* pt satisfies the bounds and every row of model.
PrimalFeasible(model, pt) ==
    /\ \A i \in DOMAIN model.lb : model.lb[i] <= pt[i] /\ pt[i] <= model.ub[i]
    /\ \A r \in DOMAIN model.rows : RowHolds(model, r, pt)

\* The last iteration ran to its end: m is the parent of left_model and
\* right_model.
Branched == node_count >= 3 /\ child_status = <<OPTIMAL, OPTIMAL>>

\* The rows solve_node appended to the parent's: the branching row, then the cuts.
NewRows(child) == Len(m.rows) + 1 .. Len(child.rows)

\* The parent's largest error p_i - e_i.
ParentError == approx_error(m, n, PLFValues(m))[branch_index(m, n, PLFValues(m))]

\* C21. After solve_node has copied the parent LP and appended the branching
\* bound and the refined cuts, the parent's optimal point (x*, e*) satisfies
\* every constraint of the left and of the right child LP.
C21_ParentFeasibleInChild ==
    Branched => PrimalFeasible(left_model, m.x) /\ PrimalFeasible(right_model, m.x)

\* C21 as the program has it: the parent's point satisfies the bounds, every
\* inherited row and the branching row of both children, and in each child it
\* violates a refined cut exactly when the parent's error at the branched
\* variable is positive; the cut at the branch point asks e >= f(x*).
C21_ParentCutOff ==
    Branched =>
        \A child \in {left_model, right_model} :
            /\ SubSeq(child.rows, 1, Len(m.rows)) = m.rows
            /\ child.lb = m.lb /\ child.ub = m.ub
            /\ \A r \in 1 .. Len(m.rows) + 1 : RowHolds(child, r, m.x)
            /\ child.rows[Len(m.rows) + 1].kind \in {"le", "ge"}
            /\ (\E r \in NewRows(child) : ~ RowHolds(child, r, m.x)) <=> ParentError > 0
            /\ ~ PrimalFeasible(child, m.x) <=> ParentError > 0

\* C21 happens: a node with a positive error was branched, and its point is
\* cut off in both children.
C21_Witness ==
    /\ Branched
    /\ AtLoopTest
    /\ ParentError > 0
    /\ ~ PrimalFeasible(left_model, m.x)
    /\ ~ PrimalFeasible(right_model, m.x)
    /\ left_model.objval > m.objval


\* The parent of an iteration: the front of the frontier before the step.
ParentErrors == [i \in 1 .. n |-> nodes_plf_values[1][i] - nodes_model[1].x[n + i]]

\* The lowest index attaining the largest error.
LargestError ==
    CHOOSE i \in 1 .. n :
        /\ \A j \in 1 .. n : ParentErrors[j] <= ParentErrors[i]
        /\ \A j \in 1 .. i - 1 : ParentErrors[j] # ParentErrors[i]

SplitPoint == nodes_model[1].x[LargestError]

\* The first breakpoint of the parent's envelope of the branched variable that
\* is strictly greater than the split point, as an index of the list here
\* (one more than Python's); one past the end if there is none.
FirstGreater ==
    LET px == nodes_envelope_x[1][LargestError]
    IN  IF \E k \in DOMAIN px : px[k] > SplitPoint
        THEN CHOOSE k \in DOMAIN px : px[k] > SplitPoint /\ \A j \in 1 .. k - 1 : px[j] <= SplitPoint
        ELSE Len(px) + 1

\* The rows a child got on top of the parent's.
Appended(child) == SubSeq(child.rows, Len(nodes_model[1].rows) + 1, Len(child.rows))

CutEnd(row) == row.ax + row.dx

C22_Step ==
    IterationDone =>
        LET px == nodes_envelope_x[1][LargestError]
            left == Appended(left_model')
            right == Appended(right_model')
        IN  /\ left[1] = BoundRow("le", LargestError, SplitPoint)
            /\ right[1] = BoundRow("ge", LargestError, SplitPoint)
            /\ \A k \in 2 .. Len(left) : left[k].kind = "cut" /\ left[k].var = LargestError
            /\ \A k \in 2 .. Len(right) : right[k].kind = "cut" /\ right[k].var = LargestError
            /\ Len(left) >= 2 /\ Len(right) >= 2
            /\ FirstGreater \in 2 .. Len(px)
            /\ left[2].ax = px[FirstGreater - 1]
            /\ CutEnd(Last(left)) = SplitPoint
            /\ right[2].ax = SplitPoint
            /\ CutEnd(Last(right)) = px[FirstGreater]

\* C22. branch_and_bound branches on the lowest index i* attaining the
\* largest p_i - e_i of the parent's cached PL values and epigraph values,
\* splits at s = x*_{i*}, and refines, for both children, around the first
\* breakpoint of the parent's envelope of i* that is strictly greater than s:
\* the left child over [the breakpoint before it, s], the right child over
\* [s, that breakpoint].
C22_LargestErrorBranching == [][C22_Step]_vars

\* C22 happens: two variables tied on the largest error, the first was
\* branched.
C22_Witness ==
    /\ Branched
    /\ AtLoopTest
    /\ LET err == approx_error(m, n, PLFValues(m))
       IN  \E i, j \in 1 .. n :
              /\ i < j /\ err[i] = err[j] /\ err[i] > 0
              /\ \A k \in 1 .. n : err[k] <= err[i]
              /\ left_model.rows[Len(m.rows) + 1] = BoundRow("le", i, m.x[i])
              /\ right_model.rows[Len(m.rows) + 1] = BoundRow("ge", i, m.x[i])


\* The breakpoints of the refined envelope, read off the cuts of a child.
CutXs(rows) == [k \in 1 .. Len(rows) |-> IF k < Len(rows) THEN rows[k + 1].ax ELSE CutEnd(rows[k])]

CutYs(rows) ==
    [k \in 1 .. Len(rows) |-> IF k < Len(rows) THEN rows[k + 1].ay
                              ELSE rows[k].ay + rows[k].dy]

\* The places of a model in the frontier after the step.
PlacesOf(model) == {j \in DOMAIN nodes_model' : nodes_model'[j] = model}

C23_Step ==
    IterationDone =>
        LET i == LargestError
            px == nodes_envelope_x[1][i]
            py == nodes_envelope_y[1][i]
            left == Appended(left_model')
            right == Appended(right_model')
        IN  /\ \A j \in PlacesOf(left_model') :
                  /\ nodes_envelope_x'[j][i] = SubSeq(px, 1, FirstGreater - 2) \o CutXs(left)
                  /\ nodes_envelope_y'[j][i] = SubSeq(py, 1, FirstGreater - 2) \o CutYs(left)
                  /\ Last(nodes_envelope_x'[j][i]) = SplitPoint
            /\ \A j \in PlacesOf(right_model') :
                  /\ nodes_envelope_x'[j][i] = CutXs(right) \o SubSeq(px, FirstGreater + 1, Len(px))
                  /\ nodes_envelope_y'[j][i] = CutYs(right) \o SubSeq(py, FirstGreater + 1, Len(py))
                  /\ nodes_envelope_x'[j][i][1] = SplitPoint

C23_State ==
    \A j \in DOMAIN nodes_model : \A i \in 1 .. n :
        LET ex == nodes_envelope_x[j][i]
            ey == nodes_envelope_y[j][i]
        IN  /\ Len(ex) = Len(ey) /\ Len(ex) >= 2
            /\ \A k \in 1 .. Len(ex) - 1 : ex[k] < ex[k + 1]
            /\ ex[1] = MinOf(RangeOf(nodes_model[j], i))
            /\ Last(ex) = MaxOf(RangeOf(nodes_model[j], i))
            /\ \A k \in DOMAIN ex :
                  ey[k] = getPLFvalue(PLFs_breakpoints_x[i], PLFs_breakpoints_y[i], ex[k], problem)

\* C23. For the branched variable the left child's envelope list is the
\* parent's up to the breakpoint before pos - 1 followed by the refined
\* envelope over [parent_x[pos-1], s], the right child's is the refined
\* envelope over [s, parent_x[pos]] followed by the parent's from pos + 1 on;
\* at every node the list has strictly increasing x, begins and ends at the
\* node's bounds of the variable, and every point of it lies on f (0 at the
\* jump).
C23_EnvelopeAssembly == []C23_State /\ [][C23_Step]_vars

\* C23 happens: a left child in the frontier ends its list of three or more
\* breakpoints at the split point, below the variable's upper bound, and a
\* right child in the frontier begins its list at a split point above the
\* lower bound.
C23_Witness ==
    /\ AtLoopTest
    /\ \E j \in DOMAIN nodes_model : \E i \in 1 .. n :
          /\ Len(nodes_envelope_x[j][i]) >= 3
          /\ Last(nodes_envelope_x[j][i]) < nodes_model[j].ub[i]
    /\ \E j \in DOMAIN nodes_model : \E i \in 1 .. n :
          nodes_envelope_x[j][i][1] > nodes_model[j].lb[i]


\* ------------------------------------------------- the frame of branching

\* No object that exists before a step is written by it.
C24_Step == \A a \in DOMAIN heap : heap'[a] = heap[a]

BranchAndBoundReturned == pc = "branched"

\* The parent's objects hold what they held at the call.
ParentIntact ==
    /\ heap[bb.m] = m.rows
    /\ heap[bb.env_breakpoints_x] = [i \in 1 .. n |-> 3 + i]
    /\ heap[bb.env_breakpoints_y] = [i \in 1 .. n |-> 3 + n + i]
    /\ \A i \in 1 .. n : /\ heap[3 + i] = RootEnvelopes[i].x
                         /\ heap[3 + n + i] = RootEnvelopes[i].y

\* The child's outer lists are objects of its own and hold the parent's inner
\* lists at every index but the branched one, where they hold new lists.
ChildSharesButBranched(c) ==
    /\ c.m # bb.m
    /\ c.env_breakpoints_x # bb.env_breakpoints_x
    /\ c.env_breakpoints_y # bb.env_breakpoints_y
    /\ \A i \in 1 .. n :
          /\ (heap[c.env_breakpoints_x][i] = heap[bb.env_breakpoints_x][i]) <=> i # bb.branch_index
          /\ (heap[c.env_breakpoints_y][i] = heap[bb.env_breakpoints_y][i]) <=> i # bb.branch_index

\* The right child is built from the parent's objects alone: its rows are the
\* parent's, x >= s and its cuts, its list of the branched variable runs from
\* s to the end of the parent's.
RightFromParent ==
    LET c == child_nodes[2]
        bi == bb.branch_index
        rows == heap[c.m]
        ex == heap[heap[c.env_breakpoints_x][bi]]
    IN  /\ SubSeq(rows, 1, Len(m.rows)) = m.rows
        /\ rows[Len(m.rows) + 1] = BoundRow("ge", bi, bb.branch_point)
        /\ \A r \in Len(m.rows) + 2 .. Len(rows) : rows[r].kind = "cut"
        /\ ex[1] = bb.branch_point
        /\ Last(ex) = Last(RootEnvelopes[bi].x)
        /\ Len(ex) = Len(rows) - Len(m.rows) + (Len(RootEnvelopes[bi].x) - bb.pos - 1)

C24_State ==
    BranchAndBoundReturned =>
        /\ ParentIntact
        /\ \A k \in 1 .. 2 : ChildSharesButBranched(child_nodes[k])
        /\ child_nodes[1].m # child_nodes[2].m
        /\ child_nodes[1].env_breakpoints_x # child_nodes[2].env_breakpoints_x
        /\ child_nodes[1].env_breakpoints_y # child_nodes[2].env_breakpoints_y
        /\ RightFromParent

\* C24. branch_and_bound leaves the parent's model, outer envelope lists and
\* inner envelope lists as they were; each child's lists are the parent's at
\* every index but the branched one; the right child is built without seeing
\* or touching what the left child's build wrote; no list that exists is ever
\* modified in place.
C24_FrameOfBranching == []C24_State /\ [][C24_Step]_vars

\* C24 happens: a parent with two variables or more was branched, both
\* children hold the parent's inner list of another variable and a list of
\* their own for the branched one.
C24_Witness ==
    /\ BranchAndBoundReturned
    /\ n >= 2
    /\ Len(heap) = 3 + 2 * n + 10
    /\ \E i \in 1 .. n :
          /\ i # bb.branch_index
          /\ heap[child_nodes[1].env_breakpoints_x][i] = 3 + i
          /\ heap[child_nodes[2].env_breakpoints_x][i] = 3 + i
    /\ heap[heap[child_nodes[1].env_breakpoints_x][bb.branch_index]]
         # heap[heap[child_nodes[2].env_breakpoints_x][bb.branch_index]]
    /\ bb.pos < Len(RootEnvelopes[bb.branch_index].x) - 1


\* ---------------------------------------------------------- the warm start

C25_State ==
    \A k \in DOMAIN warm :
        LET rows == heap[child_nodes[k].m]
            inherited == Len(m.rows)
            refined == CutXs(SubSeq(rows, inherited + 1, Len(rows)))
        IN  /\ warm[k].VBasis = bb.var
            /\ Len(warm[k].VBasis) = 2 * n
            /\ Len(warm[k].CBasis) = Len(rows)
            /\ Len(bb.con) = inherited
            /\ \A h \in 1 .. inherited : warm[k].CBasis[h] = bb.con[h]
            /\ \A h \in inherited + 1 .. Len(rows) : warm[k].CBasis[h] = 0
            /\ rows[inherited + 1].kind \in {"le", "ge"}
            /\ \A h \in inherited + 2 .. Len(rows) : rows[h].kind = "cut"
            /\ Len(rows) - inherited = 1 + (Len(refined) - 1)

\* C25. In solve_node every variable and every row inherited from the parent
\* gets the parent's basis status, and exactly the appended rows -- the
\* branching row and the (breakpoints of the refined envelope - 1) cut rows,
\* the last rows of the child -- get status 0; no inherited row is
\* overwritten and no new row is skipped.
C25_WarmStartBasis == []C25_State

\* C25 happens: both children were given their statuses, one of them with
\* two refined cuts or more, and the last inherited row kept a status other
\* than 0.
C25_Witness ==
    /\ BranchAndBoundReturned
    /\ Len(warm) = 2
    /\ \E k \in 1 .. 2 :
          /\ Len(warm[k].CBasis) >= Len(m.rows) + 3
          /\ warm[k].CBasis[Len(m.rows)] = NONBASIC_LOWER
          /\ warm[k].CBasis[Len(m.rows) + 1] = BASIC


\* -------------------------------------------------------------- node count

RootDone == pc = "start" /\ pc' = "loop"

C26_Step ==
    /\ RootDone => node_count' = 1
    /\ IterationDone => node_count' = node_count + 2
    /\ (AtLoopTest /\ ~ IterationDone) => node_count' = node_count
    /\ ReturnFromLoop => ret'[6] = node_count

\* C26. node_count is 1 after a feasible root and grows by exactly 2 with
\* every completed iteration, whether its children entered the frontier or
\* were fathomed, and by nothing else: at every check of the loop condition
\* and at every return after a feasible root it is 1 + 2 * (iterations
\* completed), and that is the count returned.
C26_NodeCount == [](AtLoopTest => node_count % 2 = 1) /\ [][C26_Step]_vars

\* C26 happens: two iterations, all four children fathomed or branched, the
\* frontier empty, and 5 returned.
C26_Witness ==
    /\ TupleReturned
    /\ ret[6] = 5
    /\ node_count = 5
    /\ nodes_lb = << >>


\* ------------------------------------------------------- the branch point

\* The loop condition can hold at this check: the body runs.
BodyRuns == AtLoopTest /\ \E ft \in FloatTypes, now \in Readings : LoopTest(ft, now) = "go"

\* C27. With an exact LP solver and epsilon >= 0, whenever the loop body runs
\* the branched variable has an error p - e > 0 and its branch point s lies
\* strictly between two neighbouring breakpoints of the parent's envelope,
\* parent_x[pos-1] < s < parent_x[pos] with 1 <= pos <= len(parent_x) - 1:
\* both refined intervals have positive width, lower_x[pos] exists, and no
\* slope is a quotient by zero.
C27_BranchPointInterior ==
    BodyRuns =>
        LET px == nodes_envelope_x[1][LargestError]
            pos == FirstGreater - 1
        IN  /\ ParentErrors[LargestError] > 0
            /\ 1 <= pos /\ pos <= Len(px) - 1
            /\ px[pos] < SplitPoint /\ SplitPoint < px[pos + 1]
            /\ pos = branch_pos(nodes_model[1], n, nodes_plf_values[1], nodes_envelope_x[1])
            /\ ~ BranchRaises(nodes_model[1], n, nodes_plf_values[1], nodes_envelope_x[1])
            /\ \A k \in 1 .. Len(px) - 1 : px[k] < px[k + 1]

\* C27 happens: the body runs on a node below the root whose branch point
\* lies inside the second segment or a later one of its envelope.
C27_Witness ==
    /\ BodyRuns
    /\ node_count >= 3
    /\ FirstGreater >= 3
    /\ ParentErrors[LargestError] > 0


\* ------------------------------------------------ the children are solvable

\* The child LP of the front node on a side, before it is solved.
ChildOfFront(side) ==
    LET bi == LargestError
        lower == nodes_envelope_x[1][bi]
        new_lower == getEnvelope(PLFs_breakpoints_x[bi], PLFs_breakpoints_y[bi],
                                 NodeInterval(side, lower, FirstGreater - 1, SplitPoint), problem)
    IN  ChildModel(side, nodes_model[1], bi, SplitPoint, new_lower)

\* The point x with every e_i raised to the largest of its cuts.
RaisedPoint(model, x) == x \o [i \in 1 .. Len(x) |-> EpiValue(model, i, x[i])]

C28_State ==
    BodyRuns =>
        /\ ~ BranchRaises(nodes_model[1], n, nodes_plf_values[1], nodes_envelope_x[1])
        /\ \A side \in {"left", "right"} :
              LET child == ChildOfFront(side)
                  x == SubSeq(nodes_model[1].x, 1, n)
              IN  /\ PrimalFeasible(child, RaisedPoint(child, x))
                  /\ \A i \in 1 .. n : \E r \in RowsOf(child, "cut") : child.rows[r].var = i
                  /\ \A i \in 1 .. n : child.lb[i] <= child.ub[i]

C28_Step ==
    AtLoopTest =>
        /\ \A k \in DOMAIN child_status' : child_status'[k] # INFEASIBLE
        /\ IterationDone =>
              /\ left_model'.status = OPTIMAL /\ Len(left_model'.x) = 2 * n
              /\ right_model'.status = OPTIMAL /\ Len(right_model'.x) = 2 * n
              /\ left_model'.objval >= nodes_model[1].objval
              /\ right_model'.objval >= nodes_model[1].objval

\* C28. For every node taken from the frontier both child LPs are feasible --
\* the parent's x* satisfies x <= s, x >= s and the equality rows, with e
\* raised to the cuts -- and bounded below -- every e_i has a cut and x is
\* boxed: no child LP is without an optimal solution, and the solution and
\* objective read after an iteration are those of optimal children.
C28_ChildrenSolvable == []C28_State /\ [][C28_Step]_vars

\* C28 happens: a node below the root was branched and both children were
\* solved, one of them to a bound above the parent's.
C28_Witness ==
    /\ Branched
    /\ AtLoopTest
    /\ node_count >= 5
    /\ left_model.status = OPTIMAL
    /\ right_model.status = OPTIMAL
    /\ right_model.objval > m.objval
    /\ PrimalFeasible(right_model, RaisedPoint(right_model, SubSeq(m.x, 1, n)))


\* ------------------------------------------------------- the lower bound

C29_Step ==
    (IterationDone /\ nodes_lb' # << >>) => nodes_lb'[1] >= nodes_lb[1]

\* C29. From one iteration to the next, as long as the frontier is not
\* empty, the front value nodes_lb[0] never decreases, and it is never below
\* root_node_lb.
C29_MonotoneLowerBound ==
    /\ [](AtLoopTest /\ nodes_lb # << >> => nodes_lb[1] >= root_node_lb)
    /\ [][C29_Step]_vars

\* C29 happens: after two iterations the frontier is not empty and its front
\* lies above the root's bound.
C29_Witness ==
    /\ AtLoopTest
    /\ node_count >= 5
    /\ nodes_lb # << >>
    /\ nodes_lb[1] > root_node_lb


\* ----------------------------------------------------- the returned bounds

\* Lines 178 and 263-264: upper_bound, lower_bound and root_node_lb as returned.
upper_bound == ret[7]

lower_bound == ret[8]

ReturnedRootLb == ret[10]

\* The return of line 178, or the return of lines 263-264 after the clock
\* passed the time limit with a frontier whose gap is still open.
StoppedEarly ==
    /\ NonSentinelReturn
    /\ nodes_lb # << >>
    /\ ret[1] = 1801 \/ (ret[1] >= timelimit /\ GapTest(float_type) = "true")

\* C30. In every result tuple that is not the sentinel, those returned at the
\* time limit and by the watchdog included, lower_bound <= upper_bound and
\* root_node_lb <= lower_bound.
C30_ConsistentBounds ==
    NonSentinelReturn => lower_bound <= upper_bound /\ ReturnedRootLb <= lower_bound

\* C30 happens: the watchdog or the time limit ends a search of three nodes
\* or more whose bounds are strictly apart.
C30_Witness ==
    /\ StoppedEarly
    /\ ret[6] >= 3
    /\ ReturnedRootLb < lower_bound
    /\ lower_bound < upper_bound


====
